---- MODULE Spec2Model ----
(***************************************************************************)
(* Verification model of the Deliveroo BDI agent.                          *)
(*                                                                         *)
(*  - BDI_Agent (src/src/lib/BDIAgent.ts): the intention queue, push() and *)
(*    the revision loop, with Intention.achieve()/stop() (part_019) and    *)
(*    the plan library (Plan.ts, PickUpPlan.ts, GoToPlanPddl.ts).          *)
(*  - generateOptions and the sensor callbacks (src/src/DeliverooDriver.ts)*)
(*  - BDI_Engine / IntentionExecutor: the tour variant of the queue.       *)
(*  - Communication (src/src/lib/BeliefSet.ts): the three-way handshake.   *)
(*                                                                         *)
(* One macro-task of the JavaScript event loop (a callback together with   *)
(* every micro-task it schedules) is one action: handlers never interleave *)
(* between two awaits on already-settled promises.                         *)
(***************************************************************************)
EXTENDS Integers, Sequences, FiniteSets, TLC

\* ------------------------------------------------------------------ bounds
\* Intentions created by push() over one run.
MaxIntentions == 4
\* Utilities the evaluator returns for an option range over 1..MaxUtility.
MaxUtility == 2

\* ------------------------------------------------------------------ world
Parcels == {"p1"}
NoParcel == "none"
NoTile == [x |-> -1, y |-> -1]
Tile(n) == [x |-> n, y |-> 0]
\* The map is the row  P P D : two parcel generators and one delivery tile,
\* with other agents about and the parcel on the agent's tile.
Tiles == {Tile(0), Tile(1), Tile(2)}
RowPPD ==
  [generators |-> {Tile(0), Tile(1)}, deliveryZones |-> {Tile(2)},
   parcelTile |-> Tile(0), alone |-> FALSE]
\* The row  S . P . D  of five tiles: the agent starts on S, alone on the map,
\* one parcel lies on the generator P.
RowSPD ==
  [generators |-> {Tile(2)}, deliveryZones |-> {Tile(4)},
   parcelTile |-> Tile(2), alone |-> TRUE]
\* The utility Infinity of the immediate pickup / delivery pushes.
Infinity == MaxUtility + 1

ParcelStatus == {"unknown", "free", "carried"}
\* carriedBy of a known parcel: "carried" is another agent's id, "mine" the
\* agent's own.
CarriedStatus == {"carried", "mine"}

\* The two teammates; Self has the lexicographically lower id ("A" < "Z").
Self == "A"
Mate == "Z"
Agents == {Self, Mate}
NoAgent == "none"

VARIABLES
  engine,             \* which queue implementation runs: "BDI_Agent" | "BDI_Engine"
  usePddl,            \* config.usePddl
  row,                \* the map the server sent: its generators, delivery
                      \* tiles, the tile of the parcel, other agents or none
  intentionQueue,     \* BDI_Agent.#intentionQueue: sequence of intention ids
  intentions,         \* the Intention objects created so far, by id
  created,            \* number of Intention objects created by push()
  loopPc,             \* BDI_Agent.loop: "ready" (at setImmediate) | "achieving"
  me,                 \* beliefSet.me (rounded tile)
  parcels,            \* beliefSet.parcels: status of each parcel
  carrying,           \* beliefSet.carrying (ids)
  drained,            \* history: the last step shifted the queue to empty
  callbackInvoked,    \* history: the last step invoked #onQueueEmpty
  settled,            \* history: the intention whose achieve() settled last step
  answered,           \* history: the actuator call that returned last
                      \* step, its result and the inventory it found
  holding,            \* history: the parcels client.pickup() has returned
  world,              \* history: the tile the agent stands on and whether
                      \* the parcel was delivered (S . P . D row only)
  calls,              \* history: the actuator calls the server has answered,
                      \* in order (S . P . D row only)
                      \* since the last drop that returned any
  tourQueue,          \* BDI_Engine.intentionQueue: sequence of intention ids
  tourIntentions,     \* the tour-variant Intention objects, by id
  tourCreated,        \* number of tour-variant Intention objects created
  tourLoopPc,         \* intentionRevisionLoop: "ready" | "awaiting"
  executor,           \* IntentionExecutor: isExecuting, currentlyExecuting
  bdi,                \* per agent: teammateId, sessionId, handshakeComplete,
                      \*            initiatedHandshake
  inbox,              \* per agent: the messages its socket has yet to deliver
  hellos,             \* per agent: Hello broadcasts made so far
  nextUuid,           \* the next fresh UUID (session ids and nonces)
  rebalance,          \* computeParcelGeneratorPartitioning: its local state
                      \* at the head of the rebalancing loop
  coop,               \* per agent, what cooperation writes in its BeliefSet:
                      \* teammate, the lists last given to updateFromParcels
                      \* and updateFromAgents, mapPartitioning
  mateMe,             \* beliefSet.me in the teammate's process
  coopSteps,          \* sensor events, deliveries and timer ticks so far
  generated,          \* history: the agent whose generateOptions ran last step
  recomputed,         \* history: the agent that stored a partitioning it
                      \* computed last step
  parcelStore,        \* BeliefSet.parcels: id -> ExtendedParcel
  activeParcelPositions, \* BeliefSet.activeParcelPositions
  now,                \* Date.now() at the last call on the belief set
  decadingInterval,   \* config.PARCEL_DECADING_INTERVAL
  returned,           \* history: the parcels the last call returned
  evicted,            \* history: the ids the last call's cleanup deleted
  lastData,           \* history: the list given to updateFromParcels when it
                      \* was the last call, and whether it repeated the one
                      \* before
  query,              \* the arguments of a findPath call, and the belief
                      \* set's occupiedPositions at the time of the call
  found,              \* what findPath returned
  position,           \* where the replay of the returned moves stands
  replayed,           \* how many of the returned moves were replayed
  otherAgents,        \* BeliefSet.otherAgents
  occupiedPositions,  \* BeliefSet.occupiedPositions: position key -> time
  forgetMs,           \* longestPathLength * config.MOVEMENT_DURATION
  lastAgents          \* history: the list given to updateFromAgents when it
                      \* was the last call

config == <<engine, usePddl, row>>
queueVars == <<intentionQueue, intentions, created, loopPc>>
beliefVars == <<me, parcels, carrying>>
historyVars ==
  <<drained, callbackInvoked, settled, answered, holding, world, calls>>
tourVars == <<tourQueue, tourIntentions, tourCreated, tourLoopPc, executor>>
netVars == <<inbox, hellos, nextUuid>>
coopVars == <<coop, mateMe, coopSteps, generated, recomputed>>
storeVars ==
  <<parcelStore, activeParcelPositions, now, decadingInterval, returned,
    evicted, lastData>>
pathVars == <<query, found, position, replayed>>
agentVars == <<otherAgents, occupiedPositions, forgetMs, lastAgents>>
extVars == <<rebalance, coopVars, storeVars, pathVars, agentVars>>
vars ==
  <<config, queueVars, beliefVars, historyVars, tourVars, bdi, netVars,
    extVars>>

\* The map as the belief set holds it.
TileOf(p) == IF p = "p1" THEN row.parcelTile ELSE Tile(1)
Generators == row.generators
DeliveryZones == row.deliveryZones

\* ------------------------------------------------------------- intentions
Predicate(type, destination, parcel_id, utility) ==
  [type |-> type, destination |-> destination, parcel_id |-> parcel_id,
   utility |-> utility]

NoPredicate == Predicate("none", NoTile, NoParcel, 0)

\* An Intention together with the plan objects hanging off it: its
\* #current_plan, that plan's single sub-intention (GoTo) and the
\* sub-intention's #current_plan (GoToPlan).
NewIntention(predicate) ==
  [predicate |-> predicate,
   started |-> FALSE, stopped |-> FALSE,
   hasPlan |-> FALSE, planStopped |-> FALSE,
   hasSub |-> FALSE, subStopped |-> FALSE,
   hasSubPlan |-> FALSE, subPlanStopped |-> FALSE,
   pc |-> "new",            \* new | move | pickup | drop | say | done
   remaining |-> 0,         \* moves of the computed path not yet completed
   outcome |-> "none",      \* none | resolved | stopped | failed
   callAfterStop |-> FALSE] \* history: a call was started with the plan stopped

Blank == NewIntention(NoPredicate)

InFlight == {"move", "pickup", "drop", "say"}

\* Plan.stop() of the sub-intention's GoToPlan (it has no sub-intentions).
SubPlanStop(r) == [r EXCEPT !.subPlanStopped = TRUE]

\* Intention.stop() of the sub-intention.
SubIntentionStop(r) ==
  LET r1 == [r EXCEPT !.subStopped = TRUE]
  IN IF r1.hasSubPlan THEN SubPlanStop(r1) ELSE r1

\* A Plan.stop() that sets its own flag and forgets the sub-intentions.
PlanStopNoPropagation(r) == [r EXCEPT !.planStopped = TRUE]

\* Plan.stop(): set the flag, then stop every sub-intention.
PlanStop(r) ==
  LET r1 == [r EXCEPT !.planStopped = TRUE]
  IN IF r1.hasSub THEN SubIntentionStop(r1) ELSE r1

\* Intention.stop(): set the flag, then stop the current plan.
IntentionStop(r) ==
  LET r1 == [r EXCEPT !.stopped = TRUE]
  IN IF r1.hasPlan THEN PlanStop(r1) ELSE r1

\* ------------------------------------------------------------ plan library
\* A throw that reaches Intention.achieve(): the catch logs it, the loop over
\* planLibrary goes on (no later plan applies to the predicate), and the
\* stopped checks of lines 61 / 81 decide between the two rejections.
Threw(r) ==
  [r EXCEPT !.pc = "done",
            !.outcome = IF r.stopped THEN "stopped" ELSE "failed"]

\* achieve() returns the plan's result (line 72).
Resolved(r) == [r EXCEPT !.pc = "done", !.outcome = "resolved"]

\* The plan starts an actuator call or a message send and suspends on it.
IssueCall(r, call) ==
  [r EXCEPT !.pc = call, !.callAfterStop = r.callAfterStop \/ r.planStopped]

\* The stopped flag the running GoToPlan reads: its own.
GoToStopped(r) == IF r.hasSub THEN r.subPlanStopped ELSE r.planStopped

\* PickUpPlan.execute lines 20-21 / DeliverPlan.execute lines 53-54: after the
\* GoTo sub-intention resolved.
ParentAfterGoTo(r) ==
  IF r.planStopped THEN Threw(r)
  ELSE IssueCall(r, IF r.predicate.type = "PICKUP" THEN "pickup" ELSE "drop")

\* GoToPlan.execute returned true (lines 105, 119): a top-level GoTo or
\* Exploration intention resolves, a sub-intention hands over to its parent.
GoToReturned(r) == IF r.hasSub THEN ParentAfterGoTo(r) ELSE Resolved(r)

\* GoToPlan.execute, head of the for loop (lines 108-111) with r.remaining
\* moves left.
GoToLoop(r) ==
  IF r.remaining = 0 THEN GoToReturned(r)
  ELSE IF GoToStopped(r) THEN Threw(r)
  ELSE IssueCall(r, "move")

\* A GoToPlan that goes on with the path after a move that failed.
MoveReturnedIgnoringFailure(r, ok) ==
  GoToLoop([r EXCEPT !.remaining = r.remaining - 1])

\* client.move returned inside GoToPlan.execute (lines 111-117).
MoveReturned(r, ok) ==
  IF ~ok THEN Threw(r)
  ELSE GoToLoop([r EXCEPT !.remaining = r.remaining - 1])

\* PickUpPlan.execute lines 29-30 (the inventory update is in the action).
PickupReturned(r) == IF r.planStopped THEN Threw(r) ELSE Resolved(r)

\* DeliverPlan.execute lines 66-67.
DeliverFinish(r) == IF r.planStopped THEN Threw(r) ELSE Resolved(r)

\* DeliverPlan.execute lines 54-65: client.drop returned; the partition owner
\* recomputes the partitioning and awaits communication.sendMapPartitioning.
DropReturned(r, nonEmpty, owner) ==
  IF nonEmpty /\ owner THEN IssueCall(r, "say") ELSE DeliverFinish(r)

\* The predicate PickUpPlan.execute (lines 13-18) and DeliverPlan.execute
\* (lines 47-51) hand to this.subIntention: PickUpPlan copies parcel_id,
\* DeliverPlan names no parcel_id.
SubPredicate(r) ==
  Predicate("GO_TO", r.predicate.destination,
            IF r.predicate.type = "PICKUP" THEN r.predicate.parcel_id
            ELSE NoParcel,
            r.predicate.utility)

NoPath == -1

\* Intention.achieve() up to its first suspension. path is what
\* pathFinder.findPath returns for the GoToPlan: NoPath or a number of moves.
AchieveStart(r, path) ==
  IF r.started THEN r                       \* "cannot start twice": returns this
  ELSE LET r1 == [r EXCEPT !.started = TRUE] IN
    IF r1.stopped THEN Threw(r1)
    ELSE LET withSub == r1.predicate.type \in {"PICKUP", "DELIVER"}
             r2 == [r1 EXCEPT !.hasPlan = TRUE, !.hasSub = withSub,
                              !.hasSubPlan = withSub]
         IN IF path = NoPath THEN Threw(r2)
            ELSE GoToLoop([r2 EXCEPT !.remaining = path])

\* What the caller of achieve() observes when the promise settles: how it
\* settled, and whether stop() had been called on the intention by then.
NotSettled == [outcome |-> "none", stopped |-> FALSE]
Settled(r) ==
  IF r.pc = "done" THEN [outcome |-> r.outcome, stopped |-> r.stopped]
  ELSE NotSettled

\* What a returning actuator call leaves in the history: the call, the ids
\* client.pickup() returned, whether the result of client.drop() or
\* client.move() was truthy (a non-empty list, a position), and
\* beliefSet.carrying as the call found it.
Answer(call, got, ok, carried) ==
  [call |-> call, got |-> got, ok |-> ok, carried |-> carried]
NoAnswer == Answer("none", {}, FALSE, {})

\* PickUpPlan.execute lines 24-28: addCarryingParcel for every parcel that
\* client.pickup() returned; it adds the ones the belief set holds.
AfterPickup(carried, got, known) == carried \cup {p \in got : known[p] # "unknown"}

\* The two DeliverPlan classes of the plan library's directory, by file: the
\* one of plans/PickUpPlan.ts (lines 40-68) reads the result of client.drop(),
\* the one of plans/DeliverPlan.ts (lines 18-20), which Intention.ts imports,
\* awaits client.drop() and drops its result.
DeliverPlans == {"plans/PickUpPlan.ts", "plans/DeliverPlan.ts"}
ReadsDropResult(plan) == plan = "plans/PickUpPlan.ts"

\* DeliverPlan.execute after client.drop(): clearCarryingParcels when the plan
\* reads the result and the list is not empty (plans/PickUpPlan.ts 55-56).
AfterDrop(carried, nonEmpty, plan) ==
  IF ReadsDropResult(plan) /\ nonEmpty THEN {} ELSE carried

\* The server's side of the S . P . D row: the tile the agent stands on and
\* whether the parcel was put down on the delivery tile.
World(x, delivered) == [x |-> x, delivered |-> delivered]
Start == World(0, FALSE)
\* The direction of the moves of a path along the row to r's destination.
Direction(w, r) ==
  IF r.predicate.destination.x > w.x THEN "right" ELSE "left"
\* Where client.move leaves the agent.
Moved(w, r, ok) ==
  IF ~row.alone \/ ~ok THEN w
  ELSE IF Direction(w, r) = "right" THEN World(w.x + 1, w.delivered)
  ELSE World(w.x - 1, w.delivered)
\* client.drop() with a parcel in hand puts it down, on the row's delivery tile.
Dropped(w, nonEmpty) ==
  IF row.alone /\ nonEmpty THEN World(w.x, TRUE) ELSE w
\* The list of calls answered so far, with one more.
Logged(log, call) == IF row.alone THEN Append(log, call) ELSE log

\* ---------------------------------------------------------- intention queue
\* The part of the agent a handler reads and writes while it runs.
State ==
  [q |-> intentionQueue, ints |-> intentions, created |-> created,
   me |-> me, parcels |-> parcels, carrying |-> carrying,
   drained |-> FALSE, callbackInvoked |-> FALSE, settled |-> NotSettled,
   answered |-> NoAnswer, holding |-> holding, world |-> world,
   calls |-> calls, overflow |-> FALSE]

\* JSON.stringify({...a, utility: undefined}) === JSON.stringify({...b, ...}):
\* every field but utility is serialised and compared.
SamePredicate(a, b) ==
  /\ a.type = b.type
  /\ a.destination = b.destination
  /\ a.parcel_id = b.parcel_id

\* A push() that appends and leaves the previously last intention running.
PushWithoutStop(s, predicate) ==
  LET n == Len(s.q)
      last == IF n > 0 THEN s.q[n] ELSE 0
  IN IF last # 0 /\ SamePredicate(s.ints[last].predicate, predicate) THEN s
     ELSE IF s.created >= MaxIntentions THEN [s EXCEPT !.overflow = TRUE]
     ELSE LET id == s.created + 1
          IN [s EXCEPT !.q = Append(s.q, id),
                       !.ints[id] = NewIntention(predicate), !.created = id]

\* BDI_Agent.push(predicate): nothing if the last queued intention has the
\* same predicate; otherwise append a new intention and stop the one that was
\* last.
Push(s, predicate) ==
  LET n == Len(s.q)
      last == IF n > 0 THEN s.q[n] ELSE 0
  IN IF last # 0 /\ SamePredicate(s.ints[last].predicate, predicate) THEN s
     ELSE IF s.created >= MaxIntentions THEN [s EXCEPT !.overflow = TRUE]
     ELSE LET id == s.created + 1
              ints1 == [s.ints EXCEPT ![id] = NewIntention(predicate)]
              ints2 == IF last # 0
                       THEN [ints1 EXCEPT ![last] = IntentionStop(ints1[last])]
                       ELSE ints1
          IN [s EXCEPT !.q = Append(s.q, id), !.ints = ints2, !.created = id]

\* bdiAgent.currentIntention: the head of the queue (0: undefined).
CurrentIntention(s) == IF Len(s.q) > 0 THEN s.q[1] ELSE 0

\* beliefSet.getParcelIdAtCurrentPosition(): a parcel lying on the agent's tile.
SittingOnParcelIds(s) ==
  {p \in Parcels : s.parcels[p] = "free" /\ TileOf(p) = s.me}

\* generateOptions step 3-4: the options the utility evaluator can rank first
\* from the current beliefs (options[0] after the sort of line 272).
BestOptions(s) ==
  {Predicate("PICKUP", TileOf(p), p, u) :
     p \in {x \in Parcels : s.parcels[x] = "free"}, u \in 1..MaxUtility}
  \cup
  (IF s.carrying # {}
   THEN {Predicate("DELIVER", d, NoParcel, u) :
           d \in DeliveryZones, u \in 1..MaxUtility}
   ELSE {})

\* generateOptions step 5 (lines 258-268): no option, explore if idle.
ExploreIfIdle(s, generator) ==
  IF CurrentIntention(s) = 0 /\ generator # NoTile
  THEN Push(s, Predicate("EXPLORATION", generator, NoParcel, 0))
  ELSE s

\* The comparison of line 275.
BetterThanCurrent(s, bestOption) ==
  \/ CurrentIntention(s) = 0
  \/ s.ints[CurrentIntention(s)].predicate.utility < bestOption.utility

\* generateOptions step 6 (lines 271-278).
PushIfBetter(s, bestOption) ==
  IF BetterThanCurrent(s, bestOption) THEN Push(s, bestOption) ELSE s

\* generateOptions(): every state it can leave the queue in, over the values
\* the utility evaluator and the generator draw can take.
GenerateOptions(s) ==
  LET cur == CurrentIntention(s)
      curPred == IF cur = 0 THEN NoPredicate ELSE s.ints[cur].predicate
      onParcel == {p \in SittingOnParcelIds(s) : cur = 0 \/ curPred.parcel_id # p}
  IN IF onParcel # {}
     THEN {Push(s, Predicate("PICKUP", s.me, p, Infinity)) : p \in onParcel}
     ELSE IF /\ s.carrying # {}
             /\ s.me \in DeliveryZones
             /\ \/ cur = 0
                \/ /\ curPred.destination.x # s.me.x
                   /\ curPred.destination.y # s.me.y
     THEN {Push(s, Predicate("DELIVER", s.me, NoParcel, Infinity))}
     ELSE {PushIfBetter(s, b) : b \in BestOptions(s)}
          \cup {ExploreIfIdle(s, g) : g \in Generators \cup {NoTile}}

\* A validity check that misses the Deliver case.
IsValidPickupOnly(s, predicate) ==
  ~(/\ predicate.type = "PICKUP"
    /\ predicate.parcel_id # NoParcel
    /\ s.parcels[predicate.parcel_id] \in CarriedStatus)

\* BDI_Agent.loop lines 67-79: is the head still worth achieving?
IsValid(s, predicate) ==
  /\ ~(predicate.type = "DELIVER" /\ s.carrying = {})
  /\ ~(/\ predicate.type = "PICKUP"
       /\ predicate.parcel_id # NoParcel
       /\ s.parcels[predicate.parcel_id] \in CarriedStatus)

\* this.#intentionQueue.shift(). The queue held the only reference to an
\* intention that is not running: the object is garbage from here on.
Shift(s) ==
  LET i == Head(s.q)
  IN [s EXCEPT !.q = Tail(s.q),
               !.ints[i] = IF s.ints[i].pc \in InFlight THEN @ ELSE Blank,
               !.drained = s.drained \/ Len(s.q) = 1]

\* BDI_Agent.loop lines 66-79: shift + continue while the head is not valid.
RECURSIVE DropInvalid(_)
DropInvalid(s) ==
  IF Len(s.q) > 0 /\ ~IsValid(s, s.ints[s.q[1]].predicate)
  THEN DropInvalid(Shift(s))
  ELSE s

\* A loop that calls achieve() and goes on without awaiting it.
NoAwait == FALSE

\* BDI_Agent.loop line 82: the loop awaits achieve() before it goes on.
LoopAwaitsAchieve == TRUE

\* A loop that goes on after achieve() without the shift of line 97.
LoopAfterAchieveKeepsHead(s) == {s}

\* BDI_Agent.loop lines 96-103: achieve() settled; pop, and run the
\* queue-empty callback (generateOptions, registered iff config.usePddl).
LoopAfterAchieve(s) ==
  LET s1 == Shift(s)
  IN IF Len(s1.q) = 0 /\ usePddl
     THEN GenerateOptions([s1 EXCEPT !.callbackInvoked = TRUE])
     ELSE {s1}

\* findPath(me, destination) on the row: the direct way, or none when a tile
\* on it is occupied.
Abs(n) == IF n < 0 THEN -n ELSE n
FindPath(from, to) ==
  IF row.alone THEN {Abs(to.x - from.x)} ELSE {NoPath, Abs(to.x - from.x)}

Commit(s) ==
  /\ ~s.overflow
  /\ intentionQueue' = s.q
  /\ intentions' = s.ints
  /\ created' = s.created
  /\ me' = s.me
  /\ parcels' = s.parcels
  /\ carrying' = s.carrying
  /\ drained' = s.drained
  /\ callbackInvoked' = s.callbackInvoked
  /\ settled' = s.settled
  /\ answered' = s.answered
  /\ holding' = s.holding
  /\ world' = s.world
  /\ calls' = s.calls

\* ------------------------------------------------------------------ actions
InitAgent ==
  /\ intentionQueue = <<>>
  /\ intentions = [i \in 1..MaxIntentions |-> Blank]
  /\ created = 0
  /\ loopPc = "ready"
  /\ me = Tile(0)
  /\ parcels = [p \in Parcels |-> "unknown"]
  /\ carrying = {}
  /\ drained = FALSE
  /\ callbackInvoked = FALSE
  /\ settled = NotSettled
  /\ answered = NoAnswer
  /\ holding = {}
  /\ world = Start
  /\ calls = <<>>

\* One turn of BDI_Agent.loop from the setImmediate of line 106 to its next
\* await: drop the invalid heads, start achieve() on the first valid one and,
\* if it settles without suspending, pop it.
LoopTick ==
  /\ engine = "BDI_Agent"
  /\ loopPc = "ready"
  /\ Len(intentionQueue) > 0
  /\ LET s1 == DropInvalid(State)
     IN IF Len(s1.q) = 0
        THEN Commit(s1) /\ loopPc' = "ready"
        ELSE LET i == s1.q[1] IN
          \E path \in FindPath(s1.me, s1.ints[i].predicate.destination) :
            LET r == AchieveStart(s1.ints[i], path)
                s2 == [s1 EXCEPT !.ints[i] = r,
                                 !.settled = Settled(r)]
            IN IF s1.ints[i].started \/ r.pc = "done" \/ ~LoopAwaitsAchieve
               THEN /\ \E out \in LoopAfterAchieve(s2) : Commit(out)
                    /\ loopPc' = "ready"
               ELSE Commit(s2) /\ loopPc' = "achieving"
  /\ UNCHANGED <<config, extVars, tourVars, bdi, netVars>>

\* The continuation of a suspended achieve(): if it settled, the loop that
\* awaits it (line 82) goes on to lines 90-103.
Resume(s, i) ==
  LET s1 == [s EXCEPT !.settled = Settled(s.ints[i])]
  IN IF s1.ints[i].pc = "done" /\ loopPc = "achieving"
     THEN /\ \E out \in LoopAfterAchieve(s1) : Commit(out)
          /\ loopPc' = "ready"
     ELSE Commit(s1) /\ UNCHANGED loopPc

\* client.move(move) returns (a position, or false).
MoveReturn(i, ok) ==
  /\ engine = "BDI_Agent"
  /\ intentions[i].pc = "move"
  /\ Resume([State EXCEPT
               !.ints[i] = MoveReturned(intentions[i], ok),
               !.answered = Answer("move", {}, ok, carrying),
               !.world = Moved(world, intentions[i], ok),
               !.calls = Logged(calls, Direction(world, intentions[i]))], i)
  /\ UNCHANGED <<config, extVars, tourVars, bdi, netVars>>

\* client.pickup() returns the parcels picked up; addCarryingParcel keeps the
\* ones the belief set knows.
PickupReturn(i, got) ==
  /\ engine = "BDI_Agent"
  /\ intentions[i].pc = "pickup"
  /\ Resume([State EXCEPT
               !.ints[i] = PickupReturned(intentions[i]),
               !.carrying = AfterPickup(carrying, got, parcels),
               !.answered = Answer("pickup", got, FALSE, carrying),
               !.holding = holding \cup got,
               !.calls = Logged(calls, "pickup")], i)
  /\ UNCHANGED <<config, extVars, tourVars, bdi, netVars>>

\* client.drop() returns the parcels put down.
DropReturn(i, nonEmpty, plan) ==
  /\ engine = "BDI_Agent"
  /\ intentions[i].pc = "drop"
  /\ Resume([State EXCEPT
               !.ints[i] = DropReturned(intentions[i],
                                         nonEmpty /\ ReadsDropResult(plan),
                                         bdi[Self].initiatedHandshake),
               !.carrying = AfterDrop(carrying, nonEmpty, plan),
               !.answered = Answer("drop", {}, nonEmpty, carrying),
               !.holding = IF nonEmpty THEN {} ELSE holding,
               !.world = Dropped(world, nonEmpty),
               !.calls = Logged(calls, "drop")], i)
  /\ UNCHANGED <<config, extVars, tourVars, bdi, netVars>>

\* actionHandler.say of sendMapPartitioning returns.
SayReturn(i) ==
  /\ engine = "BDI_Agent"
  /\ intentions[i].pc = "say"
  /\ Resume([State EXCEPT !.ints[i] = DeliverFinish(intentions[i])], i)
  /\ UNCHANGED <<config, extVars, tourVars, bdi, netVars>>

\* A sensor callback ends with generateOptions() when config.usePddl.
AfterSensing(s) == IF usePddl THEN GenerateOptions(s) ELSE {s}

\* client.onYou
OnYou(pos) ==
  /\ engine = "BDI_Agent"
  /\ \E out \in AfterSensing([State EXCEPT !.me = pos]) : Commit(out)
  /\ UNCHANGED <<config, extVars, loopPc, tourVars, bdi, netVars>>

\* client.onParcelsSensing
\* The lists the server can send: it reports a parcel as carried by this
\* agent only while the agent holds it.
Sensings == [Parcels -> ParcelStatus \cup CarriedStatus]
Reportable(sensed) == \A p \in Parcels : sensed[p] = "mine" => p \in holding

OnParcelsSensing(sensed) ==
  /\ engine = "BDI_Agent"
  /\ Reportable(sensed)
  /\ sensed # parcels
  /\ \E out \in AfterSensing([State EXCEPT !.parcels = sensed]) : Commit(out)
  /\ UNCHANGED <<config, extVars, loopPc, tourVars, bdi, netVars>>

\* client.onAgentsSensing (the occupancy it records is not part of this state)
OnAgentsSensing ==
  /\ engine = "BDI_Agent"
  /\ usePddl
  /\ \E out \in GenerateOptions(State) : Commit(out)
  /\ UNCHANGED <<config, extVars, loopPc, tourVars, bdi, netVars>>

\* setInterval(generateOptions, 1000), installed when config.usePddl is off.
OptionTimer ==
  /\ engine = "BDI_Agent"
  /\ ~usePddl
  /\ \E out \in GenerateOptions(State) : Commit(out)
  /\ UNCHANGED <<config, extVars, loopPc, tourVars, bdi, netVars>>

\* Communication.initiateHandshake lines 249-251 as this agent's queue sees
\* it: the handshake this agent initiated completes (config.mode is
\* GameMode.CoOp, src/src/config.ts line 37). SpecHandshake has the protocol.
HandshakeEstablished ==
  /\ engine = "BDI_Agent"
  /\ ~bdi[Self].handshakeComplete
  /\ bdi' = [bdi EXCEPT ![Self] = [teammateId |-> Mate, sessionId |-> 1,
                                   handshakeComplete |-> TRUE,
                                   initiatedHandshake |-> TRUE]]
  /\ drained' = FALSE
  /\ callbackInvoked' = FALSE
  /\ settled' = NotSettled
  /\ answered' = NoAnswer
  /\ UNCHANGED <<config, extVars, queueVars, beliefVars, holding, world, calls,
                 tourVars,
                 netVars>>

NextAgent ==
  \/ LoopTick
  \/ \E i \in 1..MaxIntentions, ok \in BOOLEAN : MoveReturn(i, ok)
  \/ \E i \in 1..MaxIntentions, got \in {{}} \cup {{p} : p \in Parcels} :
       PickupReturn(i, got)
  \/ \E i \in 1..MaxIntentions, nonEmpty \in BOOLEAN, plan \in DeliverPlans :
       DropReturn(i, nonEmpty, plan)
  \/ \E i \in 1..MaxIntentions : SayReturn(i)
  \/ \E pos \in Tiles : OnYou(pos)
  \/ \E sensed \in Sensings : OnParcelsSensing(sensed)
  \/ OnAgentsSensing
  \/ OptionTimer
  \/ HandshakeEstablished

\* ------------------------------------------------------- the S . P . D row
\* The agent alone on the row: the server answers every call truthfully, its
\* `you` event reaches the agent before anything else happens after a move,
\* and it senses the parcel wherever it stands.
Fresh == me = Tile(world.x)
TrueSensing ==
  [p \in Parcels |-> IF world.delivered THEN "unknown"
                     ELSE IF p \in holding THEN "mine" ELSE "free"]
OnAgentsTile ==
  {p \in Parcels :
     ~world.delivered /\ p \notin holding /\ TileOf(p) = Tile(world.x)}

RowYou == ~Fresh /\ OnYou(Tile(world.x))
RowParcelsSensing == Fresh /\ OnParcelsSensing(TrueSensing)
RowAgentsSensing == Fresh /\ OnAgentsSensing
RowOptionTimer == Fresh /\ OptionTimer
RowLoopTick == Fresh /\ LoopTick
RowMoveReturn == Fresh /\ \E i \in 1..MaxIntentions : MoveReturn(i, TRUE)
RowPickupReturn ==
  Fresh /\ \E i \in 1..MaxIntentions : PickupReturn(i, OnAgentsTile)
RowDropReturn ==
  Fresh /\ \E i \in 1..MaxIntentions, plan \in DeliverPlans :
             DropReturn(i, holding # {}, plan)

NextRow ==
  \/ RowYou
  \/ RowParcelsSensing
  \/ RowAgentsSensing
  \/ RowOptionTimer
  \/ RowLoopTick
  \/ RowMoveReturn
  \/ RowPickupReturn
  \/ RowDropReturn

\* ============================================================ tour variant
\* BDI_Engine with IntentionExecutor: the queue holds tour-variant Intention
\* objects (desireType, tour, finished, executing).
TourIntention(desireType, parcel, utility) ==
  [desireType |-> desireType,
   parcel |-> parcel,            \* the parcel of the tour's PICKUP stop
   hasPickup |-> desireType = "PLAN_TOUR",  \* tour.stops still has the PICKUP
   utility |-> utility,          \* tour.utility
   finished |-> FALSE, executing |-> FALSE,
   pc |-> "new",                 \* new | move | pickup | drop | done
   stop |-> 0,                   \* index of the stop the executor is serving
   remaining |-> 0]              \* moves of the current path not yet made

TourBlank == TourIntention("none", NoParcel, 0)

Idle == [isExecuting |-> FALSE, currentlyExecuting |-> 0]

\* The part of the engine a handler reads and writes while it runs.
TourState ==
  [q |-> tourQueue, ints |-> tourIntentions, created |-> tourCreated,
   executor |-> executor, overflow |-> FALSE]

Range(q) == {q[k] : k \in 1..Len(q)}

\* BDI_Engine.isIntentionValid, against the belief set's parcels.
IsIntentionValid(r) ==
  /\ ~r.finished
  /\ ~(r.desireType = "PLAN_TOUR" /\ r.hasPickup /\ parcels[r.parcel] = "unknown")

\* IntentionExecutor.stopCurrentExecution
StopCurrentExecution(t) ==
  IF t.executor.currentlyExecuting # 0
  THEN [t EXCEPT !.ints[t.executor.currentlyExecuting].finished = TRUE]
  ELSE t

\* this.intentionQueue.shift()
TourShift(t) == IF Len(t.q) > 0 THEN [t EXCEPT !.q = Tail(t.q)] ELSE t

\* intentionRevisionLoop lines 577-586: shift + continue while the head is
\* not valid.
RECURSIVE TourDropInvalid(_)
TourDropInvalid(t) ==
  IF Len(t.q) > 0 /\ ~IsIntentionValid(t.ints[t.q[1]])
  THEN TourDropInvalid(TourShift(IF t.ints[t.q[1]].executing
                                 THEN StopCurrentExecution(t) ELSE t))
  ELSE t

\* executeIntention lines 66-76: the executor's method returned (or threw).
ExecReturn(r) ==
  [r EXCEPT !.finished = TRUE, !.executing = FALSE, !.pc = "done"]

\* executeTourIntention lines 106-136: the action of the stop.
TourAct(r) ==
  IF r.finished THEN ExecReturn(r)
  ELSE [r EXCEPT !.pc = IF r.stop = 1 THEN "pickup" ELSE "drop"]

\* The move loops of executeTourIntention (98-104) and
\* executeExploreIntention (156-161).
TourMoves(r) ==
  IF r.remaining = 0
  THEN IF r.desireType = "PLAN_TOUR" THEN TourAct(r) ELSE ExecReturn(r)
  ELSE IF r.finished THEN ExecReturn(r)
  ELSE [r EXCEPT !.pc = "move"]

\* path?.moves || []
Moves(path) == IF path = NoPath THEN 0 ELSE path

\* executeTourIntention lines 83-96: the head of the loop over the stops.
TourStopStart(r, path) ==
  IF r.finished THEN ExecReturn(r)
  ELSE TourMoves([r EXCEPT !.remaining = Moves(path)])

\* executeExploreIntention lines 145-154.
ExploreStart(r, path) == TourMoves([r EXCEPT !.remaining = Moves(path)])

\* The finally block of executeIntention (lines 72-76).
ExecutorSettle(t, i) ==
  IF t.ints[i].pc = "done" THEN [t EXCEPT !.executor = Idle] ELSE t

\* IntentionExecutor.executeIntention up to its first suspension.
ExecuteIntention(t, i, amIMoving, path) ==
  IF t.executor.isExecuting \/ t.ints[i].finished \/ amIMoving THEN t
  ELSE LET r0 == [t.ints[i] EXCEPT !.executing = TRUE]
           r1 == IF r0.desireType = "PLAN_TOUR"
                 THEN TourStopStart([r0 EXCEPT !.stop = 1], path)
                 ELSE ExploreStart(r0, path)
       IN ExecutorSettle(
            [t EXCEPT !.ints[i] = r1,
                      !.executor = [isExecuting |-> TRUE,
                                    currentlyExecuting |-> i]], i)

\* intentionRevisionLoop lines 596-598: after the await of executeIntention.
LoopAfterExecute(t, i) == IF t.ints[i].finished THEN TourShift(t) ELSE t

\* calculateIntentionUtility
CalculateIntentionUtility(r) ==
  IF r.desireType = "PLAN_TOUR" THEN r.utility ELSE 0

\* Array.prototype.sort with (a, b) => utilityB - utilityA: stable, highest
\* utility first.
InsertByUtility(sorted, id, ints) ==
  LET k == Cardinality({j \in 1..Len(sorted) :
             CalculateIntentionUtility(ints[sorted[j]])
               >= CalculateIntentionUtility(ints[id])})
  IN SubSeq(sorted, 1, k) \o <<id>> \o SubSeq(sorted, k + 1, Len(sorted))

RECURSIVE SortByUtility(_, _)
SortByUtility(q, ints) ==
  IF q = <<>> THEN <<>>
  ELSE InsertByUtility(SortByUtility(SubSeq(q, 1, Len(q) - 1), ints),
                       q[Len(q)], ints)

\* BDI_Engine.reviseIntentionQueue: keep the valid intentions, sort them.
ReviseIntentionQueue(t) ==
  [t EXCEPT !.q = SortByUtility(
                    SelectSeq(t.q, LAMBDA i : IsIntentionValid(t.ints[i])),
                    t.ints)]

\* BDI_Engine.isSameIntention: the last disjunct makes it the equality of the
\* desire types.
IsSameIntention(a, b) ==
  /\ a.desireType = b.desireType
  /\ \/ a.desireType = "PLAN_TOUR" /\ b.desireType = "PLAN_TOUR"
     \/ a.desireType = b.desireType

\* BDI_Engine.pushIntention (isRevising is false whenever a handler starts:
\* the method has no await between setting and clearing it).
PushIntention(t, new) ==
  LET same == {k \in 1..Len(t.q) : IsSameIntention(t.ints[t.q[k]], new)}
      id == t.created + 1
  IN IF same # {} /\ new.desireType # "PLAN_TOUR" THEN t
     ELSE IF t.created >= MaxIntentions THEN [t EXCEPT !.overflow = TRUE]
     ELSE IF same # {}
     THEN LET existingIndex == CHOOSE k \in same : \A j \in same : k <= j
          IN StopCurrentExecution(
               [t EXCEPT !.q[existingIndex] = id, !.ints[id] = new,
                         !.created = id])
     ELSE ReviseIntentionQueue(
            [t EXCEPT !.q = Append(t.q, id), !.ints[id] = new, !.created = id])

\* Objects the engine still references: queued, or held by the executor.
TourCommit(t) ==
  /\ ~t.overflow
  /\ tourQueue' = t.q
  /\ tourIntentions' =
       [i \in 1..MaxIntentions |->
          IF i \in Range(t.q) \/ t.ints[i].executing THEN t.ints[i]
          ELSE TourBlank]
  /\ tourCreated' = t.created
  /\ executor' = t.executor

\* Where the executor's pathfinder is asked to go, and what it can answer.
TourDestinations(r, stop) ==
  IF r.desireType = "PLAN_TOUR"
  THEN IF stop = 1 THEN {TileOf(r.parcel)} ELSE DeliveryZones
  ELSE Tiles
TourPaths(r, stop) == UNION {FindPath(me, d) : d \in TourDestinations(r, stop)}

InitTour ==
  /\ tourQueue = <<>>
  /\ tourIntentions = [i \in 1..MaxIntentions |-> TourBlank]
  /\ tourCreated = 0
  /\ tourLoopPc = "ready"
  /\ executor = Idle

\* One turn of intentionRevisionLoop from its setImmediate to its next await.
TourLoopTick(amIMoving) ==
  /\ engine = "BDI_Engine"
  /\ tourLoopPc = "ready"
  /\ Len(tourQueue) > 0
  /\ LET t1 == TourDropInvalid(TourState)
     IN IF Len(t1.q) = 0
        THEN TourCommit(t1) /\ tourLoopPc' = "ready"
        ELSE LET i == t1.q[1] IN
          IF t1.ints[i].executing
          THEN TourCommit(TourShift(t1)) /\ tourLoopPc' = "ready"
          ELSE \E path \in TourPaths(t1.ints[i], 1) :
                 LET t2 == ExecuteIntention(t1, i, amIMoving, path)
                 IN IF t2.ints[i].executing
                    THEN TourCommit(t2) /\ tourLoopPc' = "awaiting"
                    ELSE /\ TourCommit(LoopAfterExecute(t2, i))
                         /\ tourLoopPc' = "ready"
  /\ UNCHANGED <<config, extVars, queueVars, beliefVars, historyVars, bdi, netVars>>

\* The executor's method went on after an actuator call; when it returned,
\* the revision loop that awaits it goes on too.
TourResume(t, i) ==
  LET t1 == ExecutorSettle(t, i)
  IN IF t1.ints[i].pc = "done"
     THEN TourCommit(LoopAfterExecute(t1, i)) /\ tourLoopPc' = "ready"
     ELSE TourCommit(t1) /\ UNCHANGED tourLoopPc

\* actionHandler.move returns (its result is not looked at).
TourMoveReturn(i) ==
  /\ engine = "BDI_Engine"
  /\ tourIntentions[i].pc = "move"
  /\ TourResume([TourState EXCEPT !.ints[i] =
       TourMoves([tourIntentions[i] EXCEPT !.remaining = @ - 1])], i)
  /\ UNCHANGED <<config, extVars, queueVars, beliefVars, historyVars, bdi, netVars>>

\* actionHandler.pickup returns; then the loop over the stops goes on to the
\* DELIVERY stop.
TourPickupReturn(i, got) ==
  /\ engine = "BDI_Engine"
  /\ tourIntentions[i].pc = "pickup"
  /\ LET r == tourIntentions[i] IN
     \E path \in TourPaths(r, 2) :
       /\ TourResume([TourState EXCEPT !.ints[i] =
            TourStopStart([r EXCEPT !.stop = 2,
                                    !.hasPickup = IF got THEN FALSE ELSE @],
                          path)], i)
       /\ carrying' = IF got /\ parcels[r.parcel] # "unknown"
                      THEN carrying \cup {r.parcel} ELSE carrying
  /\ UNCHANGED <<config, extVars, queueVars, me, parcels, historyVars, bdi, netVars>>

\* actionHandler.drop returns: the intention is finished.
TourDropReturn(i, nonEmpty) ==
  /\ engine = "BDI_Engine"
  /\ tourIntentions[i].pc = "drop"
  /\ TourResume([TourState EXCEPT !.ints[i] = ExecReturn(tourIntentions[i])], i)
  /\ carrying' = IF nonEmpty THEN {} ELSE carrying
  /\ UNCHANGED <<config, extVars, queueVars, me, parcels, historyVars, bdi, netVars>>

\* The setInterval callback of BDI_Engine.run: deliberate, filter,
\* pushIntention. planned: the tour planner returned a tour (createTour, or
\* improveTour when a tour intention is queued) for parcel p with utility u.
Deliberate(planned, p, u) ==
  /\ engine = "BDI_Engine"
  /\ IF \E x \in Parcels : parcels[x] # "unknown"
     THEN /\ planned
          /\ parcels[p] # "unknown"
          /\ TourCommit(PushIntention(TourState, TourIntention("PLAN_TOUR", p, u)))
     ELSE TourCommit(PushIntention(TourState,
                       TourIntention("EXPLORE_RANDOMLY", NoParcel, 0)))
  /\ UNCHANGED <<config, extVars, queueVars, beliefVars, historyVars, tourLoopPc, bdi,
                 netVars>>

\* beliefSet.updateFromYou / updateFromParcels of the tour variant's driver.
UpdateFromYou(pos) ==
  /\ engine = "BDI_Engine"
  /\ pos # me
  /\ me' = pos
  /\ UNCHANGED <<config, extVars, queueVars, parcels, carrying, historyVars, tourVars,
                 bdi, netVars>>

UpdateFromParcels(sensed) ==
  /\ engine = "BDI_Engine"
  /\ sensed # parcels
  /\ parcels' = sensed
  /\ UNCHANGED <<config, extVars, queueVars, me, carrying, historyVars, tourVars, bdi,
                 netVars>>

NextTour ==
  \/ \E amIMoving \in BOOLEAN : TourLoopTick(amIMoving)
  \/ \E i \in 1..MaxIntentions : TourMoveReturn(i)
  \/ \E i \in 1..MaxIntentions, got \in BOOLEAN : TourPickupReturn(i, got)
  \/ \E i \in 1..MaxIntentions, nonEmpty \in BOOLEAN : TourDropReturn(i, nonEmpty)
  \/ \E planned \in BOOLEAN, p \in Parcels, u \in 1..MaxUtility :
       Deliberate(planned, p, u)
  \/ \E pos \in Tiles : UpdateFromYou(pos)
  \/ \E sensed \in [Parcels -> ParcelStatus] : UpdateFromParcels(sensed)

\* ================================================================ handshake
\* Communication (discover, initiateHandshake, handleMessage) between the two
\* teammates. Each agent's socket delivers its incoming packets in order:
\* messages of the teammate, replies to its asks, and the server's
\* acknowledgement that resolves an awaited say.
MaxHellos == 2

NoHandshake ==
  [teammateId |-> NoAgent, sessionId |-> 0, handshakeComplete |-> FALSE,
   initiatedHandshake |-> FALSE]

\* config.TEAM_KEY, and a key that is not this team's.
TeamKey == "team"
ForeignKey == "foreign"

\* The payload of the session-scoped messages: MyInfoContent.info (the
\* position), ParcelsSensedContent.parcels, AgentsSensedContent.agents,
\* MapPartitioningContent.partitioning (the serialised map).
NoContent == [info |-> NoTile, parcels |-> {}, agents |-> {}, partitioning |-> <<>>]

Message(type, from, nonce, echoNonce, sessionId) ==
  [type |-> type, from |-> from, teamKey |-> TeamKey, nonce |-> nonce,
   echoNonce |-> echoNonce, sessionId |-> sessionId, content |-> NoContent]

Other(a) == IF a = Self THEN Mate ELSE Self

\* myId < agentId on the two ids "A" and "Z".
Lower(a, b) == a = Self /\ b = Mate

\* setHandshake without its last assignment.
SetHandshakeIncomplete(b, teammateId, sessionId) ==
  [b EXCEPT !.teammateId = teammateId, !.sessionId = sessionId]

\* BDI_Agent.setHandshake
SetHandshake(b, teammateId, sessionId) ==
  [b EXCEPT !.teammateId = teammateId, !.sessionId = sessionId,
            !.handshakeComplete = TRUE]

Send(box, to, msg) == [box EXCEPT ![to] = Append(@, msg)]

InitNet ==
  /\ bdi = [a \in Agents |-> NoHandshake]
  /\ inbox = [a \in Agents |-> <<>>]
  /\ hellos = [a \in Agents |-> 0]
  /\ nextUuid = 1

\* The discovery interval of the driver: shout a Hello while the handshake is
\* not complete.
Discover(a) ==
  /\ ~bdi[a].handshakeComplete
  /\ hellos[a] < MaxHellos
  /\ hellos' = [hellos EXCEPT ![a] = @ + 1]
  /\ inbox' = Send(inbox, Other(a), Message("HELLO", a, 0, 0, 0))
  /\ UNCHANGED <<config, extVars, queueVars, beliefVars, historyVars, tourVars, bdi,
                 nextUuid>>

\* handleMessage, case HELLO: the lower id starts initiateHandshake, which
\* draws a nonce and asks the partner.
HandleHello(a) ==
  /\ inbox[a] # <<>>
  /\ Head(inbox[a]).type = "HELLO"
  /\ LET msg == Head(inbox[a])
         rest == [inbox EXCEPT ![a] = Tail(@)]
     IN IF msg.from # a /\ Lower(a, msg.from) /\ bdi[a].teammateId = NoAgent
        THEN /\ inbox' = Send(rest, msg.from,
                              Message("HANDSHAKE_INIT", a, nextUuid, 0, 0))
             /\ nextUuid' = nextUuid + 1
        ELSE inbox' = rest /\ UNCHANGED nextUuid
  /\ UNCHANGED <<config, extVars, queueVars, beliefVars, historyVars, tourVars, bdi,
                 hellos>>

\* handleMessage, case HANDSHAKE_INIT: reply with a fresh session id and the
\* echoed nonce. The reply resolves the ask the init came with.
HandleInit(a) ==
  /\ inbox[a] # <<>>
  /\ Head(inbox[a]).type = "HANDSHAKE_INIT"
  /\ LET msg == Head(inbox[a])
         rest == [inbox EXCEPT ![a] = Tail(@)]
     IN inbox' = Send(rest, msg.from,
                      Message("HANDSHAKE_ACK", a, msg.nonce, msg.nonce,
                              nextUuid))
  /\ nextUuid' = nextUuid + 1
  /\ UNCHANGED <<config, extVars, queueVars, beliefVars, historyVars, tourVars, bdi,
                 hellos>>

\* What the ask of initiateHandshake can return other than the partner's
\* acknowledgement: a message of another type, an acknowledgement with another
\* team key or another nonce, or a rejection of the ask.
BadReplies == {"OTHER_TYPE", "WRONG_KEY", "WRONG_NONCE", "ASK_FAILED"}

BadReply(kind, from, nonce) ==
  LET ack == Message("HANDSHAKE_ACK", from, nonce, nonce, nextUuid)
  IN CASE kind = "OTHER_TYPE" -> [ack EXCEPT !.type = "HELLO_REPLY"]
       [] kind = "WRONG_KEY" -> [ack EXCEPT !.teamKey = ForeignKey]
       [] kind = "WRONG_NONCE" -> [ack EXCEPT !.echoNonce = 0]
       [] OTHER -> [ack EXCEPT !.type = "ASK_FAILED"]

\* The partner is not running handleMessage (or the server drops the ask): the
\* ask of the initiator returns a bad reply, or rejects.
ForeignReply(a, kind) ==
  /\ inbox[a] # <<>>
  /\ Head(inbox[a]).type = "HANDSHAKE_INIT"
  /\ LET msg == Head(inbox[a])
         rest == [inbox EXCEPT ![a] = Tail(@)]
     IN inbox' = Send(rest, msg.from, BadReply(kind, a, msg.nonce))
  /\ nextUuid' = nextUuid + 1
  /\ UNCHANGED <<config, extVars, queueVars, beliefVars, historyVars, tourVars, bdi,
                 hellos>>

\* The replies that resolve or reject the ask of initiateHandshake.
AskReplies == {"HANDSHAKE_ACK", "HELLO_REPLY", "ASK_FAILED"}

AckAcceptedAnyNonce(msg) ==
  /\ msg.type = "HANDSHAKE_ACK"
  /\ msg.teamKey = TeamKey

\* initiateHandshake lines 236-240. msg.nonce is the nonce the initiator drew
\* for this ask.
AckAccepted(msg) ==
  /\ msg.type = "HANDSHAKE_ACK"
  /\ msg.teamKey = TeamKey
  /\ msg.echoNonce = msg.nonce

\* initiateHandshake lines 233-249: the ask settled; check the
\* acknowledgement and say the confirm. The say is awaited. A rejected ask
\* lands in the catch block.
HandleAck(a) ==
  /\ inbox[a] # <<>>
  /\ Head(inbox[a]).type \in AskReplies
  /\ LET msg == Head(inbox[a])
         rest == [inbox EXCEPT ![a] = Tail(@)]
     IN IF AckAccepted(msg)
        THEN inbox' = Send(Send(rest, msg.from,
                                Message("HANDSHAKE_CONFIRM", a, 0, 0,
                                        msg.sessionId)),
                           a, Message("SAY_DONE", msg.from, 0, 0, msg.sessionId))
        ELSE inbox' = rest
  /\ UNCHANGED <<config, extVars, queueVars, beliefVars, historyVars, tourVars, bdi,
                 hellos, nextUuid>>

\* initiateHandshake lines 250-251: the awaited say returned.
SayResolved(a) ==
  /\ inbox[a] # <<>>
  /\ Head(inbox[a]).type = "SAY_DONE"
  /\ LET msg == Head(inbox[a])
     IN bdi' = [bdi EXCEPT ![a] =
                  SetHandshake([@ EXCEPT !.initiatedHandshake = TRUE],
                               msg.from, msg.sessionId)]
  /\ inbox' = [inbox EXCEPT ![a] = Tail(@)]
  /\ UNCHANGED <<config, extVars, queueVars, beliefVars, historyVars, tourVars, hellos,
                 nextUuid>>

\* handleMessage, case HANDSHAKE_CONFIRM.
HandleConfirm(a) ==
  /\ inbox[a] # <<>>
  /\ Head(inbox[a]).type = "HANDSHAKE_CONFIRM"
  /\ LET msg == Head(inbox[a])
     IN bdi' = [bdi EXCEPT ![a] = SetHandshake(@, msg.from, msg.sessionId)]
  /\ inbox' = [inbox EXCEPT ![a] = Tail(@)]
  /\ UNCHANGED <<config, extVars, queueVars, beliefVars, historyVars, tourVars, hellos,
                 nextUuid>>

NextHandshake ==
  \/ \E a \in Agents : Discover(a)
  \/ \E a \in Agents : HandleHello(a)
  \/ \E a \in Agents : HandleInit(a)
  \/ \E a \in Agents, kind \in BadReplies : ForeignReply(a, kind)
  \/ \E a \in Agents : HandleAck(a)
  \/ \E a \in Agents : SayResolved(a)
  \/ \E a \in Agents : HandleConfirm(a)

\* An agent of the server that is not one of the two teammates.
Stranger == "Q"

\* The driver's onMsg hands every message of every sender to handleMessage:
\* the stranger says a HANDSHAKE_CONFIRM to a, with a session id of its
\* choice. One such message is under way at a time, to an agent that does not
\* have the stranger as its teammate.
StrangerConfirm(a) ==
  /\ \A b \in Agents :
       /\ bdi[b].teammateId # Stranger
       /\ \A k \in 1..Len(inbox[b]) : inbox[b][k].from # Stranger
  /\ \E sessionId \in 1..nextUuid :
       inbox' = Send(inbox, a,
                     Message("HANDSHAKE_CONFIRM", Stranger, 0, 0, sessionId))
  /\ UNCHANGED <<config, extVars, queueVars, beliefVars, historyVars, tourVars, bdi,
                 hellos, nextUuid>>

NextOpenHandshake ==
  \/ NextHandshake
  \/ \E a \in Agents : StrangerConfirm(a)

\* ============================================================== partitioning
\* computeParcelGeneratorPartitioning. A generator is identified by its key
\* "x,y"; dist[agent][key] is path?.cost ?? Infinity of the path from the agent
\* to the generator.
MaxGenerators == 3
MaxCost == 1

\* IEEE values a path cost or a cost difference can take besides the finite
\* ones, placed so that the order of the finite values and the infinities is
\* the numeric one.
PosInfinity == 1000
NegInfinity == -1000
NaN == 2000

Costs == (0..MaxCost) \cup {PosInfinity}

\* a - b on path costs (finite or Infinity).
Minus(a, b) ==
  IF a = PosInfinity
  THEN IF b = PosInfinity THEN NaN ELSE PosInfinity
  ELSE IF b = PosInfinity THEN NegInfinity ELSE a - b

\* a < b on cost differences: false when either is NaN.
Less(a, b) == a # NaN /\ b # NaN /\ a < b

\* distances.sort((a, b) => a.distance - b.distance)[0].agentId on the two
\* entries pushed in the order of allAgents: the sort is stable and a NaN
\* comparison counts as equal, so the second agent comes first only when it is
\* strictly closer.
BestAgentId(allAgents, dist, key) ==
  IF Less(0, Minus(dist[allAgents[1]][key], dist[allAgents[2]][key]))
  THEN allAgents[2]
  ELSE allAgents[1]

\* Step 2: the initial Voronoi partitioning; a generator no agent reaches
\* stays unassigned.
Voronoi(allAgents, generators, dist) ==
  LET Key(i) == generators[i]
      assigned == {i \in 1..Len(generators) :
                     dist[BestAgentId(allAgents, dist, Key(i))][Key(i)]
                       # PosInfinity}
      keys == {Key(i) : i \in assigned}
  IN [allAgents |-> allAgents,
      generators |-> generators,
      dist |-> dist,
      partitioning |-> [k \in keys |-> BestAgentId(allAgents, dist, k)],
      agentLoads |->
        [a \in Agents |->
           SelectSeq(generators,
                     LAMBDA k : k \in keys
                                /\ BestAgentId(allAgents, dist, k) = a)],
      done |-> FALSE,
      passes |-> 0]        \* history: passes of the while loop started so far

\* A capacity without the extra generator of the first agents.
AgentCapacityFloor(c, a) == Len(c.generators) \div 2

\* agentCapacity: targetCapacity, plus one for the agents whose index is below
\* generators.length % numAgents.
AgentCapacity(c, a) ==
  LET index == IF c.allAgents[1] = a THEN 0 ELSE 1
      n == Len(c.generators)
  IN (n \div 2) + (IF index < n % 2 THEN 1 ELSE 0)

OverCapacityAgents(c) ==
  SelectSeq(c.allAgents, LAMBDA a : Len(c.agentLoads[a]) > AgentCapacity(c, a))

UnderCapacityAgents(c) ==
  SelectSeq(c.allAgents, LAMBDA a : Len(c.agentLoads[a]) < AgentCapacity(c, a))

RECURSIVE Flatten(_)
Flatten(seqs) ==
  IF seqs = <<>> THEN <<>> ELSE Head(seqs) \o Flatten(Tail(seqs))

\* The reassignments the three nested loops visit, in their order.
Reassignments(c) ==
  LET over == OverCapacityAgents(c)
      under == UnderCapacityAgents(c)
      Candidate(from, key, to) ==
        [generatorKey |-> key, fromAgentId |-> from, toAgentId |-> to,
         cost |-> Minus(c.dist[to][key], c.dist[from][key])]
  IN Flatten([f \in 1..Len(over) |->
       Flatten([g \in 1..Len(c.agentLoads[over[f]]) |->
         [t \in 1..Len(under) |->
            Candidate(over[f], c.agentLoads[over[f]][g], under[t])]])])

\* bestReassignment after the loops: <<>> for null, else the first
\* reassignment of lowest cost (a NaN cost never replaces the best so far).
RECURSIVE BestReassignment(_, _)
BestReassignment(candidates, best) ==
  IF candidates = <<>> THEN best
  ELSE LET candidate == Head(candidates)
       IN BestReassignment(Tail(candidates),
            IF best = <<>> \/ Less(candidate.cost, best[1].cost)
            THEN <<candidate>>
            ELSE best)

\* The reassignment without the update of agentLoads.
ReassignKeepingLoads(c, r) ==
  [c EXCEPT !.partitioning =
     [k \in DOMAIN c.partitioning \cup {r.generatorKey} |->
        IF k = r.generatorKey THEN r.toAgentId ELSE c.partitioning[k]]]

\* Lines 559-576: perform the reassignment and update the loads.
Reassign(c, r) ==
  [c EXCEPT
     !.partitioning =
       [k \in DOMAIN c.partitioning \cup {r.generatorKey} |->
          IF k = r.generatorKey THEN r.toAgentId ELSE c.partitioning[k]],
     !.agentLoads =
       [a \in Agents |->
          IF a = r.fromAgentId
          THEN SelectSeq(c.agentLoads[a], LAMBDA k : k # r.generatorKey)
          ELSE IF a = r.toAgentId
          THEN Append(c.agentLoads[a], r.generatorKey)
          ELSE c.agentLoads[a]]]

\* One pass of the while loop, lines 516-577.
RebalanceOnce(c) ==
  LET pass == [c EXCEPT !.passes = @ + 1] IN
  IF OverCapacityAgents(c) = <<>> \/ UnderCapacityAgents(c) = <<>>
  THEN [pass EXCEPT !.done = TRUE]                                \* break
  ELSE LET best == BestReassignment(Reassignments(c), <<>>)
       IN IF best = <<>>
          THEN [pass EXCEPT !.done = TRUE]       \* rebalancingOccurred = false
          ELSE Reassign(pass, best[1])

RECURSIVE RebalanceLoop(_)
RebalanceLoop(c) == IF c.done THEN c ELSE RebalanceLoop(RebalanceOnce(c))

\* The state of the function where the loop starts, or where it returned
\* before: no generators, lines 476-478.
StartRebalancing(allAgents, generators, dist) ==
  IF generators = <<>>
  THEN [Voronoi(allAgents, generators, dist) EXCEPT !.done = TRUE]
  ELSE Voronoi(allAgents, generators, dist)

\* The function called by agent a with the teammate known.
ComputeParcelGeneratorPartitioning(a, generators, dist) ==
  RebalanceLoop(StartRebalancing(<<a, Other(a)>>, generators, dist)).partitioning

\* No computation under way.
NoComputation == StartRebalancing(<<Self, Mate>>, <<>>, [a \in Agents |-> <<>>])

InitPartitioning == rebalance = NoComputation

\* The inputs of one call: up to MaxGenerators generators and the cost of the
\* path of each agent to each of them.
InitRebalance ==
  \E n \in 0..MaxGenerators :
    \E dist \in [Agents -> [1..n -> Costs]] :
      rebalance = StartRebalancing(<<Self, Mate>>, [i \in 1..n |-> i], dist)

\* One pass of the rebalancing loop.
Rebalance ==
  /\ ~rebalance.done
  /\ rebalance' = RebalanceOnce(rebalance)
  /\ UNCHANGED <<config, storeVars, pathVars, agentVars, coopVars, queueVars, beliefVars, historyVars,
                 tourVars, bdi, netVars>>

\* ============================================================ parcel store
\* BeliefSet.parcels with its outdated/decay bookkeeping, and
\* activeParcelPositions. Times are milliseconds of Date.now().
MaxReward == 2
MaxTicks == 4

StoreIds == {"p1", "p2"}
StoreTiles == {Tile(0), Tile(1)}
NoCarrier == NoAgent
Carriers == {NoCarrier, "X"}

\* config.PARCEL_DECADING_INTERVAL, a string, as its sequence of characters.
OneSecond == <<"1", "s">>
Infinite == <<"i", "n", "f", "i", "n", "i", "t", "e">>
DecadingIntervals == {OneSecond, Infinite}

Digits == <<"0", "1", "2", "3", "4", "5", "6", "7", "8", "9">>
IsDigit(c) == \E d \in 1..Len(Digits) : Digits[d] = c
DigitValue(c) == (CHOOSE d \in 1..Len(Digits) : Digits[d] = c) - 1

\* The length of the longest prefix of s made of digits: the greedy (\d+).
RECURSIVE DigitPrefix(_)
DigitPrefix(s) ==
  IF s # <<>> /\ IsDigit(Head(s)) THEN 1 + DigitPrefix(Tail(s)) ELSE 0

\* parseInt of a sequence of digits.
RECURSIVE ParseInt(_)
ParseInt(s) ==
  IF s = <<>> THEN 0
  ELSE 10 * ParseInt(SubSeq(s, 1, Len(s) - 1)) + DigitValue(s[Len(s)])

\* parseTimeInterval: /^(\d+)(ms|s|m|h)?$/, 0 when the string does not match.
parseTimeInterval(interval) ==
  LET n == DigitPrefix(interval)
      value == ParseInt(SubSeq(interval, 1, n))
      unit == SubSeq(interval, n + 1, Len(interval))
  IN IF n = 0 THEN 0
     ELSE IF unit = <<>> \/ unit = <<"m", "s">> THEN value
     ELSE IF unit = <<"s">> THEN value * 1000
     ELSE IF unit = <<"m">> THEN value * 60 * 1000
     ELSE IF unit = <<"h">> THEN value * 60 * 60 * 1000
     ELSE 0

\* `${x},${y}`: one key per pair of coordinates.
PosKey(p) == <<p.x, p.y>>

\* A Parcel of an onParcelsSensing list.
Parcel(id, tile, reward, carriedBy) ==
  [id |-> id, x |-> tile.x, y |-> tile.y, reward |-> reward,
   carriedBy |-> carriedBy]

\* { ...p, outdated, lastSeenTimestamp, lastSeenReward }
ExtendedParcel(p, outdated, lastSeenTimestamp, lastSeenReward) ==
  [id |-> p.id, x |-> p.x, y |-> p.y, reward |-> p.reward,
   carriedBy |-> p.carriedBy, outdated |-> outdated,
   lastSeenTimestamp |-> lastSeenTimestamp,
   lastSeenReward |-> lastSeenReward]

\* What the server can report of one parcel: p1 lies free on either tile, p2
\* is on the first tile with reward 1, free or carried by a competitor.
Sensed(id) ==
  IF id = "p1"
  THEN {Parcel(id, t, r, NoCarrier) : t \in StoreTiles, r \in 1..MaxReward}
  ELSE {Parcel(id, Tile(0), 1, c) : c \in Carriers}

\* The lists the server sends: each parcel at most once, with a positive
\* reward, keyed here by parcel id.
SensedLists ==
  {<<>>}
    \cup {[id \in {"p1"} |-> a] : a \in Sensed("p1")}
    \cup {[id \in {"p2"} |-> b] : b \in Sensed("p2")}
    \cup {[id \in StoreIds |-> IF id = "p1" THEN a ELSE b] :
            a \in Sensed("p1"), b \in Sensed("p2")}

\* a > b on rewards: false when either is NaN.
Greater(a, b) == a # NaN /\ b # NaN /\ a > b

\* Math.floor(timeSinceLastSeen / decayIntervalMs) on a time difference that
\* is never negative: 0 / 0 is NaN and t / 0 is Infinity.
DecayPeriods(timeSinceLastSeen, decayIntervalMs) ==
  IF decayIntervalMs = 0
  THEN IF timeSinceLastSeen = 0 THEN NaN ELSE PosInfinity
  ELSE timeSinceLastSeen \div decayIntervalMs

\* Math.max(0, lastSeenReward - decayPeriods)
NewReward(lastSeenReward, decayPeriods) ==
  IF decayPeriods = NaN THEN NaN
  ELSE IF decayPeriods = PosInfinity THEN 0
  ELSE IF lastSeenReward - decayPeriods > 0
       THEN lastSeenReward - decayPeriods
       ELSE 0

\* Lines 67-70 of cleanupExpiredParcels for one parcel.
DecayedReward(parcel, currentTime, decayIntervalMs) ==
  NewReward(parcel.lastSeenReward,
            DecayPeriods(currentTime - parcel.lastSeenTimestamp,
                         decayIntervalMs))

\* The condition of line 67.
Decaying(parcel) == parcel.outdated /\ parcel.lastSeenTimestamp # 0

\* The belief set's two fields.
Store(ps, positions) == [parcels |-> ps, activeParcelPositions |-> positions]

\* cleanupExpiredParcels that evicts only below 0.
cleanupKeepingZero(b, currentTime, decayIntervalMs) ==
  LET expired == {id \in DOMAIN b.parcels :
                    /\ Decaying(b.parcels[id])
                    /\ DecayedReward(b.parcels[id], currentTime,
                                     decayIntervalMs) # NaN
                    /\ DecayedReward(b.parcels[id], currentTime,
                                     decayIntervalMs) < 0}
  IN Store([id \in DOMAIN b.parcels \ expired |->
              IF Decaying(b.parcels[id])
              THEN [b.parcels[id] EXCEPT
                      !.reward = DecayedReward(b.parcels[id], currentTime,
                                               decayIntervalMs)]
              ELSE b.parcels[id]],
           b.activeParcelPositions \
             {PosKey(b.parcels[id]) : id \in expired})

\* cleanupExpiredParcels: an outdated parcel whose decayed reward is <= 0 is
\* deleted with its position key, another outdated one takes its decayed
\* reward (NaN <= 0 is false and NaN !== reward is true).
cleanupExpiredParcels(b, currentTime, decayIntervalMs) ==
  LET expired == {id \in DOMAIN b.parcels :
                    /\ Decaying(b.parcels[id])
                    /\ DecayedReward(b.parcels[id], currentTime,
                                     decayIntervalMs) # NaN
                    /\ DecayedReward(b.parcels[id], currentTime,
                                     decayIntervalMs) <= 0}
  IN Store([id \in DOMAIN b.parcels \ expired |->
              IF Decaying(b.parcels[id])
              THEN [b.parcels[id] EXCEPT
                      !.reward = DecayedReward(b.parcels[id], currentTime,
                                               decayIntervalMs)]
              ELSE b.parcels[id]],
           b.activeParcelPositions \
             {PosKey(b.parcels[id]) : id \in expired})

\* Lines 177-184: the position keys of the sensed list.
CurrentParcelPositions(parcelsData) ==
  {PosKey(parcelsData[id]) : id \in DOMAIN parcelsData}

\* Lines 187-195: every sensed parcel is stored afresh.
StoreSensed(ps, parcelsData, currentTime) ==
  [id \in DOMAIN ps \cup DOMAIN parcelsData |->
     IF id \in DOMAIN parcelsData
     THEN ExtendedParcel(parcelsData[id], FALSE, currentTime,
                         parcelsData[id].reward)
     ELSE ps[id]]

\* The guard of line 199: the stored parcels the loop of lines 198-219 acts on.
Unseen(ps, parcelsData) ==
  {id \in DOMAIN ps : id \notin DOMAIN parcelsData /\ ~ps[id].outdated}

\* Lines 198-219: an unseen parcel is deleted when its tile is sensed and
\* marked outdated otherwise.
HandleUnseen(ps, parcelsData, currentTime) ==
  LET unseen == Unseen(ps, parcelsData)
      gone == {id \in unseen :
                 PosKey(ps[id]) \in CurrentParcelPositions(parcelsData)}
  IN [id \in DOMAIN ps \ gone |->
        IF id \in unseen
        THEN ExtendedParcel(ps[id], TRUE, currentTime, ps[id].reward)
        ELSE ps[id]]

\* Lines 222-228: the tiles of the free parcels with a positive reward.
ActivePositions(ps) ==
  {PosKey(ps[id]) : id \in {i \in DOMAIN ps :
                              /\ ps[i].carriedBy = NoCarrier
                              /\ Greater(ps[i].reward, 0)}}

\* updateFromParcels that indexes the positions before it handles the unseen
\* parcels.
updateIndexingEarly(b, parcelsData, currentTime) ==
  LET stored == StoreSensed(b.parcels, parcelsData, currentTime)
  IN Store(HandleUnseen(stored, parcelsData, currentTime),
           ActivePositions(stored))

\* updateFromParcels.
updateFromParcels(b, parcelsData, currentTime) ==
  LET stored == StoreSensed(b.parcels, parcelsData, currentTime)
      kept == HandleUnseen(stored, parcelsData, currentTime)
  IN Store(kept, ActivePositions(kept))

\* lastData: whether the last call was updateFromParcels, its list, and
\* whether the call before it was updateFromParcels with the same list.
LastCall(called, parcelsData, repeated) ==
  [called |-> called, data |-> parcelsData, repeated |-> repeated]
NoData == LastCall(FALSE, <<>>, FALSE)
NoParcels == <<>>
Belief == Store(parcelStore, activeParcelPositions)

\* The belief set after construction and updateFromConfig.
InitStore ==
  /\ parcelStore = NoParcels
  /\ activeParcelPositions = {}
  /\ now = 1000
  /\ decadingInterval = OneSecond
  /\ returned = {}
  /\ evicted = {}
  /\ lastData = NoData

InitDecay ==
  /\ parcelStore = NoParcels
  /\ activeParcelPositions = {}
  /\ now = 1000
  /\ decadingInterval \in DecadingIntervals
  /\ returned = {}
  /\ evicted = {}
  /\ lastData = NoData

otherVars ==
  <<config, queueVars, beliefVars, historyVars, tourVars, bdi, netVars,
    rebalance, coopVars>>
storeOtherVars == <<otherVars, pathVars, agentVars>>

\* Half a second passes between two calls on the belief set.
Tick ==
  /\ now < 1000 + 500 * MaxTicks
  /\ now' = now + 500
  /\ UNCHANGED <<parcelStore, activeParcelPositions, decadingInterval,
                 returned, evicted, lastData, storeOtherVars>>

\* beliefSet.updateFromParcels(parcels), called by onParcelsSensing.
CallUpdateFromParcels(parcelsData) ==
  /\ LET b == updateFromParcels(Belief, parcelsData, now)
     IN /\ parcelStore' = b.parcels
        /\ activeParcelPositions' = b.activeParcelPositions
  /\ returned' = {}
  /\ evicted' = {}
  /\ lastData' = LastCall(TRUE, parcelsData,
                        lastData.called /\ lastData.data = parcelsData)
  /\ UNCHANGED <<now, decadingInterval, storeOtherVars>>

\* beliefSet.getParcels()
CallGetParcels ==
  /\ LET b == cleanupExpiredParcels(Belief, now,
                                    parseTimeInterval(decadingInterval))
     IN /\ parcelStore' = b.parcels
        /\ activeParcelPositions' = b.activeParcelPositions
        /\ returned' = {b.parcels[id] : id \in DOMAIN b.parcels}
  /\ evicted' = DOMAIN parcelStore \ DOMAIN parcelStore'
  /\ lastData' = NoData
  /\ UNCHANGED <<now, decadingInterval, storeOtherVars>>

\* beliefSet.getParcel(id)
CallGetParcel(id) ==
  /\ LET b == cleanupExpiredParcels(Belief, now,
                                    parseTimeInterval(decadingInterval))
     IN /\ parcelStore' = b.parcels
        /\ activeParcelPositions' = b.activeParcelPositions
        /\ returned' = {b.parcels[i] : i \in DOMAIN b.parcels \cap {id}}
  /\ evicted' = DOMAIN parcelStore \ DOMAIN parcelStore'
  /\ lastData' = NoData
  /\ UNCHANGED <<now, decadingInterval, storeOtherVars>>

NextStore ==
  \/ \E parcelsData \in SensedLists : CallUpdateFromParcels(parcelsData)
  \/ CallGetParcels
  \/ \E id \in StoreIds : CallGetParcel(id)
  \/ Tick

\* =============================================================== pathfinder
\* Pathfinder.findPath (lib/Pathfinder.ts) on every small grid.
GridWidth == 3
GridHeight == 2
MaxWalls == 1

Point(x, y) == [x |-> x, y |-> y]

\* A Grid whose tiles are Walkable except those of nonWalkable.
Grid(width, height, nonWalkable) ==
  [width |-> width, height |-> height, nonWalkable |-> nonWalkable]
GridPoints(grid) ==
  {Point(x, y) : x \in 0..(grid.width - 1), y \in 0..(grid.height - 1)}
TileTypeAt(grid, x, y) ==
  IF Point(x, y) \in grid.nonWalkable THEN "NonWalkable" ELSE "Walkable"

\* getNode (lines 36-49): null outside the grid.
NullNode == [x |-> -1, y |-> -1, type |-> "null"]
getNode(grid, x, y) ==
  IF x < 0 \/ x >= grid.width \/ y < 0 \/ y >= grid.height THEN NullNode
  ELSE [x |-> x, y |-> y, type |-> TileTypeAt(grid, x, y)]

\* getNeighbors (lines 51-74), in the order of `directions`.
Directions ==
  << [dx |-> 0, dy |-> 1, move |-> "up"],
     [dx |-> 0, dy |-> -1, move |-> "down"],
     [dx |-> -1, dy |-> 0, move |-> "left"],
     [dx |-> 1, dy |-> 0, move |-> "right"] >>
Walkable(neighborNode) ==
  neighborNode # NullNode /\ neighborNode.type # "NonWalkable"
getNeighbors(currentNode, grid) ==
  LET towards ==
        [k \in 1..Len(Directions) |->
           [point |-> Point(currentNode.x + Directions[k].dx,
                            currentNode.y + Directions[k].dy),
            move |-> Directions[k].move]]
  IN SelectSeq(towards,
               LAMBDA n : Walkable(getNode(grid, n.point.x, n.point.y)))

\* heuristics.ts lines 3-5.
manhattanDistance(a, b) == Abs(a.x - b.x) + Abs(a.y - b.y)

\* PriorityQueue.enqueue (lines 11-14): push, then a stable sort by priority.
enqueue(elements, item, priority) ==
  LET k == Cardinality({j \in 1..Len(elements) :
                          elements[j].priority <= priority})
  IN SubSeq(elements, 1, k) \o <<[item |-> item, priority |-> priority]>>
       \o SubSeq(elements, k + 1, Len(elements))

\* Map.set.
MapSet(map, key, value) ==
  [k \in DOMAIN map \cup {key} |-> IF k = key THEN value ELSE map[k]]
\* distances.get(key) || Infinity (line 162): a stored 0 is falsy too.
OrInfinity(distances, key) ==
  IF key \notin DOMAIN distances \/ distances[key] = 0 THEN PosInfinity
  ELSE distances[key]
\* distances.get(key) ?? Infinity (line 154).
ElseInfinity(distances, key) ==
  IF key \notin DOMAIN distances THEN PosInfinity ELSE distances[key]

\* The result of findPath: a Path, or null.
Path(moves, cost) == [moves |-> moves, cost |-> cost]
NullPath == Path(<<>>, -1)

\* The for loop over the neighbours (lines 158-168), from the k-th on.
RECURSIVE Relax(_, _, _, _, _)
Relax(search, currentPoint, neighbors, k, goal) ==
  IF k > Len(neighbors) THEN search
  ELSE
    LET neighborPoint == neighbors[k].point
        newDistance == ElseInfinity(search.distances, currentPoint) + 1
        relaxed ==
          IF newDistance < OrInfinity(search.distances, neighborPoint)
          THEN [distances |-> MapSet(search.distances, neighborPoint,
                                     newDistance),
                previous |-> MapSet(search.previous, neighborPoint,
                                    [point |-> currentPoint,
                                     move |-> neighbors[k].move]),
                pq |-> enqueue(search.pq, neighborPoint,
                               newDistance
                                 + manhattanDistance(neighborPoint, goal))]
          ELSE search
    IN Relax(relaxed, currentPoint, neighbors, k + 1, goal)

\* The reconstruction loop (lines 138-151): the moves from start to
\* tempCurrent, in front of `path`; <<"null">> without previous information.
RECURSIVE Reconstruct(_, _, _, _)
Reconstruct(previous, tempCurrent, start, path) ==
  IF tempCurrent = start THEN path
  ELSE IF tempCurrent \notin DOMAIN previous THEN <<"null">>
  ELSE Reconstruct(previous, previous[tempCurrent].point, start,
                   <<previous[tempCurrent].move>> \o path)

\* The while loop (lines 131-172).
RECURSIVE Search(_, _, _, _)
Search(search, grid, start, goal) ==
  IF search.pq = <<>> THEN NullPath
  ELSE
    LET currentPoint == Head(search.pq).item
        dequeued == [search EXCEPT !.pq = Tail(search.pq)]
    IN IF currentPoint = goal
       THEN LET path == Reconstruct(search.previous, goal, start, <<>>)
            IN IF path = <<"null">> THEN NullPath
               ELSE Path(path,
                         IF search.distances[currentPoint] # 0
                         THEN search.distances[currentPoint] ELSE Len(path))
       ELSE Search(Relax(dequeued, currentPoint,
                         getNeighbors(currentPoint, grid), 1, goal),
                   grid, start, goal)

\* findPath (lines 91-173) with the default heuristic.
findPath(grid, start, goal) ==
  IF ~Walkable(getNode(grid, start.x, start.y)) THEN NullPath
  ELSE IF ~Walkable(getNode(grid, goal.x, goal.y)) THEN NullPath
  ELSE IF start = goal THEN Path(<<>>, 0)
  ELSE Search([distances |-> (start :> 0),
               previous |-> << >>,
               pq |-> enqueue(<<>>, start, manhattanDistance(start, goal))],
              grid, start, goal)

\* Where a move leads (the server's axes: up is y + 1).
After(point, move) ==
  CASE move = "up" -> Point(point.x, point.y + 1)
    [] move = "down" -> Point(point.x, point.y - 1)
    [] move = "left" -> Point(point.x - 1, point.y)
    [] move = "right" -> Point(point.x + 1, point.y)

\* A query: the belief set's grid and occupiedPositions, and the two points.
Query(grid, occupied, start, goal) ==
  [grid |-> grid, occupied |-> occupied, start |-> start, goal |-> goal]
NoQuery == Query(Grid(0, 0, {}), {}, Point(0, 0), Point(0, 0))
NotCalled == [called |-> FALSE, path |-> NullPath]

\* The grids of the bounded size.
Grids ==
  {Grid(GridWidth, GridHeight, nonWalkable) :
     nonWalkable \in {w \in SUBSET GridPoints(Grid(GridWidth, GridHeight, {})) :
                        Cardinality(w) <= MaxWalls}}
\* Where another agent may have been sensed: nowhere, or on one walkable
\* tile other than the agent's own.
Occupancies(grid, start) ==
  {{}} \cup {{p} : p \in (GridPoints(grid) \ grid.nonWalkable) \ {start}}

InitPathfinder ==
  /\ query = NoQuery
  /\ found = NotCalled
  /\ position = NoQuery.start
  /\ replayed = 0

InitQuery ==
  /\ \E grid \in Grids :
       \E start \in GridPoints(grid), goal \in GridPoints(grid) :
         \E occupied \in Occupancies(grid, start) :
           query = Query(grid, occupied, start, goal)
  /\ found = NotCalled
  /\ position = query.start
  /\ replayed = 0

\* await pathfinder.findPath(grid, start, goal)
CallFindPath ==
  /\ query # NoQuery
  /\ ~found.called
  /\ found' = [called |-> TRUE,
               path |-> findPath(query.grid, query.start, query.goal)]
  /\ UNCHANGED <<query, position, replayed, otherVars, storeVars, agentVars>>

\* The next move of the returned path is replayed from the start.
ReplayMove ==
  /\ found.called
  /\ found.path # NullPath
  /\ replayed < Len(found.path.moves)
  /\ position' = After(position, found.path.moves[replayed + 1])
  /\ replayed' = replayed + 1
  /\ UNCHANGED <<query, found, otherVars, storeVars, agentVars>>

NextPathfinder == CallFindPath \/ ReplayMove

\* ============================================================ other agents
\* BeliefSet.otherAgents and occupiedPositions under updateFromAgents.
\* Coordinates are tenths of a tile: the server reports an agent half way
\* through a move at n.4 or n.6.
OtherIds == {"X", "Y"}
Coordinates == {0, 6, 10}
\* Math.round of a coordinate that is not negative.
Round(x) == (2 * x + 10) \div 20

\* An Agent of an onAgentsSensing list.
SensedAgent(id, x) == [id |-> id, x |-> x, y |-> 0]
\* `${Math.round(agent.x)},${Math.round(agent.y)}`
RoundedKey(agent) == <<Round(agent.x), Round(agent.y)>>

\* The lists the server sends: every agent at most once, in any order.
AgentIdOrders ==
  {<<>>}
    \cup {<<a>> : a \in OtherIds \cup {Self}}
    \cup {ids \in (OtherIds \cup {Self}) \X (OtherIds \cup {Self}) :
            ids[1] # ids[2]}
AgentLists ==
  UNION {{[k \in 1..Len(ids) |-> SensedAgent(ids[k], xs[k])] :
            xs \in [1..Len(ids) -> Coordinates]} : ids \in AgentIdOrders}

\* Map.delete.
MapDelete(map, key) == [k \in DOMAIN map \ {key} |-> map[k]]

KnownAgents(others, occupied) ==
  [otherAgents |-> others, occupiedPositions |-> occupied]

\* The body of the first loop (lines 240-252) for the k-th agent of the list
\* and the ones after it.
RECURSIVE RecordAgents(_, _, _, _)
RecordAgents(b, data, k, currentTime) ==
  IF k > Len(data) THEN b
  ELSE IF data[k].id = Self THEN RecordAgents(b, data, k + 1, currentTime)
  ELSE
    LET agent == data[k]
        freed == IF agent.id \in DOMAIN b.otherAgents
                 THEN MapDelete(b.occupiedPositions,
                                RoundedKey(b.otherAgents[agent.id]))
                 ELSE b.occupiedPositions
    IN RecordAgents(KnownAgents(MapSet(b.otherAgents, agent.id, agent),
                            MapSet(freed, RoundedKey(agent), currentTime)),
                    data, k + 1, currentTime)

\* Lines 255-260: the agents that are not in the list are forgotten.
SeenAgents(data) == {data[k].id : k \in 1..Len(data)} \ {Self}
ForgetUnseen(others, data) ==
  [id \in DOMAIN others \cap SeenAgents(data) |-> others[id]]

\* Lines 265-271: the position keys older than forgetMs are deleted.
ForgetStale(occupied, currentTime, forget) ==
  [key \in {k \in DOMAIN occupied : ~(currentTime - occupied[k] > forget)}
     |-> occupied[key]]

\* updateFromAgents.
updateFromAgents(b, data, currentTime, forget) ==
  LET recorded == RecordAgents(b, data, 1, currentTime)
  IN KnownAgents(ForgetUnseen(recorded.otherAgents, data),
             ForgetStale(recorded.occupiedPositions, currentTime, forget))

\* longestPathLength * MOVEMENT_DURATION: 0 before the map is loaded.
ForgetTimes == {0, 1000}

NoAgents == [called |-> FALSE, data |-> <<>>]

InitAgents ==
  /\ otherAgents = << >>
  /\ occupiedPositions = << >>
  /\ forgetMs \in ForgetTimes
  /\ lastAgents = NoAgents

InitNoAgents ==
  /\ otherAgents = << >>
  /\ occupiedPositions = << >>
  /\ forgetMs = 0
  /\ lastAgents = NoAgents

\* beliefSet.updateFromAgents(agents), called by onAgentsSensing.
CallUpdateFromAgents(data) ==
  /\ LET b == updateFromAgents(KnownAgents(otherAgents, occupiedPositions), data,
                               now, forgetMs)
     IN /\ otherAgents' = b.otherAgents
        /\ occupiedPositions' = b.occupiedPositions
  /\ lastAgents' = [called |-> TRUE, data |-> data]
  /\ UNCHANGED <<forgetMs, otherVars, storeVars, pathVars>>

\* Half a second passes.
AgentsTick ==
  /\ now < 1000 + 500 * MaxTicks
  /\ now' = now + 500
  /\ lastAgents' = NoAgents
  /\ UNCHANGED <<parcelStore, activeParcelPositions, decadingInterval,
                 returned, evicted, lastData, otherAgents, occupiedPositions,
                 forgetMs, otherVars, pathVars>>

NextAgents ==
  \/ \E data \in AgentLists : CallUpdateFromAgents(data)
  \/ AgentsTick

\* ============================================================== cooperation
\* The session-scoped messages of the two teammates and the partitioning each
\* of them caches. The option generator itself is left to the agent
\* specification; here a run of it is recorded in generated.
MaxCoopSteps == 2

\* A competitor the agents can sense.
Competitors == {"X"}

\* beliefSet.getParcelGenerators(), in the order of updateFromMap.
ParcelGenerators == <<Tile(0), Tile(1)>>

\* A Map<string, string> over generator keys; NoAgent: the key is absent.
EmptyPartitioning == [g \in Generators |-> NoAgent]
Size(partitioning) ==
  Cardinality({g \in Generators : partitioning[g] # NoAgent})

\* The map a computation returned.
AsMap(partitioning) ==
  [g \in Generators |->
     IF g \in DOMAIN partitioning THEN partitioning[g] ELSE NoAgent]

\* JSON.stringify(Object.fromEntries(partitioning)): the entries in insertion
\* order, and new Map(Object.entries(JSON.parse(json))).
Serialize(partitioning) ==
  LET present == SelectSeq(ParcelGenerators,
                           LAMBDA g : partitioning[g] # NoAgent)
  IN [i \in 1..Len(present) |-> <<present[i], partitioning[present[i]]>>]

Deserialize(json) ==
  [g \in Generators |->
     IF \E i \in 1..Len(json) : json[i][1] = g
     THEN json[CHOOSE i \in 1..Len(json) : json[i][1] = g][2]
     ELSE NoAgent]

NoBelief ==
  [teammate |-> NoTile, parcels |-> {}, agents |-> {},
   mapPartitioning |-> EmptyPartitioning]

InitCoop ==
  /\ coop = [a \in Agents |-> NoBelief]
  /\ mateMe = Tile(0)
  /\ coopSteps = 0
  /\ generated = NoAgent
  /\ recomputed = NoAgent

Me(a) == IF a = Self THEN me ELSE mateMe

\* partnerId && sessionId of the send* methods.
CanSend(a) == bdi[a].teammateId # NoAgent /\ bdi[a].sessionId # 0

\* sendMyInfo, sendParcelsSensed, sendAgentsSensed, sendMapPartitioning.
SendCoop(box, a, type, content) ==
  IF CanSend(a)
  THEN Send(box, bdi[a].teammateId,
            [Message(type, a, 0, 0, bdi[a].sessionId)
               EXCEPT !.content = content])
  ELSE box

\* path?.cost ?? Infinity for a path on the row.
PathCosts(from, to) ==
  {IF path = NoPath THEN PosInfinity ELSE path : path \in FindPath(from, to)}

\* The distances step 1 can find for agent a and its teammate.
Distances(a) ==
  {dist \in [Agents -> [Generators -> (0..2) \cup {PosInfinity}]] :
     \A g \in Generators :
       /\ dist[a][g] \in PathCosts(Me(a), g)
       /\ dist[Other(a)][g] \in PathCosts(coop[a].teammate, g)}

\* computeParcelGeneratorPartitioning() in agent a: empty while the teammate
\* is not known.
NewPartitionings(a) ==
  IF coop[a].teammate = NoTile
  THEN {EmptyPartitioning}
  ELSE {AsMap(ComputeParcelGeneratorPartitioning(a, ParcelGenerators, dist)) :
          dist \in Distances(a)}

\* Everyone recomputes the partitioning.
EveryoneResponsible(a) == TRUE

\* bdiAgent.initiatedHandshake: this agent owns the partitioning computation.
Responsible(a) == bdi[a].initiatedHandshake

\* Every message is accepted.
AnySession(a, msg) == TRUE

\* sessionId === bdiAgent.sessionId (0: null).
SessionMatches(a, msg) == msg.sessionId = bdi[a].sessionId

\* client.onYou in cooperative mode.
YouCoop(a, pos) ==
  /\ coopSteps < MaxCoopSteps
  /\ coopSteps' = coopSteps + 1
  /\ IF a = Self
     THEN me' = pos /\ UNCHANGED mateMe
     ELSE mateMe' = pos /\ UNCHANGED me
  /\ inbox' = SendCoop(inbox, a, "MY_INFO", [NoContent EXCEPT !.info = pos])
  /\ generated' = IF usePddl THEN a ELSE NoAgent
  /\ recomputed' = NoAgent
  /\ UNCHANGED <<config, storeVars, pathVars, agentVars, rebalance, queueVars, parcels, carrying, historyVars,
                 tourVars, bdi, hellos, nextUuid, coop>>

\* client.onParcelsSensing in cooperative mode.
ParcelsCoop(a, sensed) ==
  /\ coopSteps < MaxCoopSteps
  /\ coopSteps' = coopSteps + 1
  /\ coop' = [coop EXCEPT ![a].parcels = sensed]
  /\ inbox' = IF sensed # {}
              THEN SendCoop(inbox, a, "PARCELS_SENSED",
                            [NoContent EXCEPT !.parcels = sensed])
              ELSE inbox
  /\ generated' = IF usePddl THEN a ELSE NoAgent
  /\ recomputed' = NoAgent
  /\ UNCHANGED <<config, storeVars, pathVars, agentVars, rebalance, queueVars, beliefVars, historyVars,
                 tourVars, bdi, hellos, nextUuid, mateMe>>

\* client.onAgentsSensing in cooperative mode.
AgentsCoop(a, sensed) ==
  /\ coopSteps < MaxCoopSteps
  /\ coopSteps' = coopSteps + 1
  /\ coop' = [coop EXCEPT ![a].agents = sensed]
  /\ LET filteredAgents == sensed \ {bdi[a].teammateId}
     IN inbox' = IF filteredAgents # {}
                 THEN SendCoop(inbox, a, "AGENTS_SENSED",
                               [NoContent EXCEPT !.agents = filteredAgents])
                 ELSE inbox
  /\ generated' = IF usePddl THEN a ELSE NoAgent
  /\ recomputed' = NoAgent
  /\ UNCHANGED <<config, storeVars, pathVars, agentVars, rebalance, queueVars, beliefVars, historyVars,
                 tourVars, bdi, hellos, nextUuid, mateMe>>

\* A tick of partitioningInterval that finds this agent responsible.
PartitioningInterval(a) ==
  /\ coopSteps < MaxCoopSteps
  /\ coopSteps' = coopSteps + 1
  /\ bdi[a].handshakeComplete
  /\ Responsible(a)
  /\ \E newPartitioning \in NewPartitionings(a) :
       IF Size(newPartitioning) > 0
       THEN /\ coop' = [coop EXCEPT ![a].mapPartitioning = newPartitioning]
            /\ inbox' = SendCoop(inbox, a, "MAP_PARTITIONING",
                                 [NoContent EXCEPT !.partitioning =
                                    Serialize(newPartitioning)])
            /\ recomputed' = a
       ELSE /\ UNCHANGED <<coop, inbox>>
            /\ recomputed' = NoAgent
  /\ generated' = NoAgent
  /\ UNCHANGED <<config, storeVars, pathVars, agentVars, rebalance, queueVars, beliefVars, historyVars,
                 tourVars, bdi, hellos, nextUuid, mateMe>>

\* DeliverPlan.execute lines 55-64 in agent a: the drop returned parcels.
Delivered(a) ==
  /\ coopSteps < MaxCoopSteps
  /\ coopSteps' = coopSteps + 1
  /\ IF Responsible(a)
     THEN \E newPartitioning \in NewPartitionings(a) :
            /\ coop' = [coop EXCEPT ![a].mapPartitioning = newPartitioning]
            /\ inbox' = SendCoop(inbox, a, "MAP_PARTITIONING",
                                 [NoContent EXCEPT !.partitioning =
                                    Serialize(newPartitioning)])
            /\ recomputed' = a
     ELSE /\ UNCHANGED <<coop, inbox>>
          /\ recomputed' = NoAgent
  /\ generated' = NoAgent
  /\ UNCHANGED <<config, storeVars, pathVars, agentVars, rebalance, queueVars, beliefVars, historyVars,
                 tourVars, bdi, hellos, nextUuid, mateMe>>

CoopTypes == {"PARCELS_SENSED", "AGENTS_SENSED", "MY_INFO", "MAP_PARTITIONING"}

\* A session id no handshake of the two teammates has issued.
StraySession == 9

\* client.onMsg delivers whatever any agent on the server sends: a
\* session-scoped message of a competitor, outside every session of the team.
StrayMessage(a, type) ==
  /\ coopSteps < MaxCoopSteps
  /\ coopSteps' = coopSteps + 1
  /\ LET sender == CHOOSE c \in Competitors : TRUE
         content == [info |-> Tile(1), parcels |-> Parcels,
                     agents |-> Competitors,
                     partitioning |-> <<<<Tile(0), sender>>>>]
     IN inbox' = Send(inbox, a, [Message(type, sender, 0, 0, StraySession)
                                   EXCEPT !.content = content])
  /\ generated' = NoAgent
  /\ recomputed' = NoAgent
  /\ UNCHANGED <<config, storeVars, pathVars, agentVars, rebalance, queueVars, beliefVars, historyVars,
                 tourVars, bdi, hellos, nextUuid, coop, mateMe>>

\* handleMessage, cases PARCELS_SENSED, AGENTS_SENSED, MY_INFO and
\* MAP_PARTITIONING; onSensedData is generateOptions.
HandleCoop(a) ==
  /\ inbox[a] # <<>>
  /\ Head(inbox[a]).type \in CoopTypes
  /\ inbox' = [inbox EXCEPT ![a] = Tail(@)]
  /\ LET msg == Head(inbox[a])
     IN IF SessionMatches(a, msg)
        THEN CASE msg.type = "PARCELS_SENSED" ->
                    /\ coop' = [coop EXCEPT ![a].parcels = msg.content.parcels]
                    /\ generated' = a
               [] msg.type = "AGENTS_SENSED" ->
                    /\ coop' = [coop EXCEPT ![a].agents = msg.content.agents]
                    /\ generated' = a
               [] msg.type = "MY_INFO" ->
                    /\ coop' = [coop EXCEPT ![a].teammate = msg.content.info]
                    /\ generated' = a
               [] OTHER ->
                    /\ coop' = [coop EXCEPT ![a].mapPartitioning =
                                  Deserialize(msg.content.partitioning)]
                    /\ generated' = NoAgent
        ELSE /\ UNCHANGED coop
             /\ generated' = NoAgent
  /\ recomputed' = NoAgent
  /\ UNCHANGED <<config, storeVars, pathVars, agentVars, rebalance, queueVars, beliefVars, historyVars,
                 tourVars, bdi, hellos, nextUuid, mateMe, coopSteps>>

\* Where the handshake can have left the two teammates when the first
\* session-scoped message is sent: nowhere; agreed on the session of a single
\* handshake; or, after two overlapping handshakes, one of them still on the
\* session of the first with the packet that ends the second yet to be handled.
Established(teammateId, sessionId, initiated) ==
  [SetHandshake(NoHandshake, teammateId, sessionId)
     EXCEPT !.initiatedHandshake = initiated]

Teammates(selfSession, mateSession) ==
  [a \in Agents |-> IF a = Self THEN Established(Mate, selfSession, TRUE)
                    ELSE Established(Self, mateSession, FALSE)]

InitTeam ==
  \/ InitNet
  \/ /\ bdi = Teammates(2, 2)
     /\ inbox = [a \in Agents |-> <<>>]
     /\ hellos = [a \in Agents |-> IF a = Mate THEN 1 ELSE 0]
     /\ nextUuid = 3
  \/ /\ bdi = Teammates(4, 3)
     /\ inbox = [a \in Agents |->
                   IF a = Mate
                   THEN <<Message("HANDSHAKE_CONFIRM", Self, 0, 0, 4)>>
                   ELSE <<>>]
     /\ hellos = [a \in Agents |-> IF a = Mate THEN 2 ELSE 0]
     /\ nextUuid = 5
  \/ /\ bdi = Teammates(3, 4)
     /\ inbox = [a \in Agents |->
                   IF a = Self
                   THEN <<Message("SAY_DONE", Mate, 0, 0, 4)>>
                   ELSE <<>>]
     /\ hellos = [a \in Agents |-> IF a = Mate THEN 2 ELSE 0]
     /\ nextUuid = 5

InitCooperation ==
  /\ engine = "BDI_Agent"
  /\ usePddl = FALSE
  /\ row = RowPPD
  /\ InitAgent
  /\ InitTour
  /\ InitTeam
  /\ InitPartitioning
  /\ InitCoop
  /\ InitStore
  /\ InitPathfinder
  /\ InitNoAgents

NextCoop ==
  \/ \E a \in Agents : SayResolved(a)
  \/ \E a \in Agents : HandleConfirm(a)
  \/ \E a \in Agents, pos \in Tiles : YouCoop(a, pos)
  \/ \E a \in Agents, sensed \in SUBSET Parcels : ParcelsCoop(a, sensed)
  \/ \E a \in Agents, sensed \in {Competitors, Competitors \cup Agents} :
       AgentsCoop(a, sensed \ {a})
  \/ \E a \in Agents : PartitioningInterval(a)
  \/ \E a \in Agents : Delivered(a)
  \/ \E a \in Agents : HandleCoop(a)
  \/ \E a \in Agents, type \in CoopTypes : StrayMessage(a, type)

\* --------------------------------------------- cooperative option generation
\* generateOptions with config.mode = GameMode.CoOp (src/src/config.ts line
\* 37): availableParcels keeps the parcels on tiles the partitioning gives to
\* this agent.
\* mapPartitioning.get(posKey)
AssignedAgent(partitioning, tile) ==
  IF tile \in DOMAIN partitioning THEN partitioning[tile] ELSE NoAgent

\* generateOptions lines 170-181.
AvailableParcels(s, partitioning) ==
  {p \in Parcels :
     /\ s.parcels[p] = "free"
     /\ AssignedAgent(partitioning, TileOf(p)) = Self}

\* generateOptions steps 3-4 over availableParcels.
CoopBestOptions(s, partitioning) ==
  {Predicate("PICKUP", TileOf(p), p, u) :
     p \in AvailableParcels(s, partitioning), u \in 1..MaxUtility}
  \cup
  (IF s.carrying # {}
   THEN {Predicate("DELIVER", d, NoParcel, u) :
           d \in DeliveryZones, u \in 1..MaxUtility}
   ELSE {})

\* generateOptions() in cooperative mode: steps 1 and 2 as they stand in the
\* source, steps 3-6 over availableParcels.
GenerateOptionsCoop(s, partitioning) ==
  LET cur == CurrentIntention(s)
      curPred == IF cur = 0 THEN NoPredicate ELSE s.ints[cur].predicate
      onParcel == {p \in SittingOnParcelIds(s) : cur = 0 \/ curPred.parcel_id # p}
  IN IF onParcel # {}
     THEN {Push(s, Predicate("PICKUP", s.me, p, Infinity)) : p \in onParcel}
     ELSE IF /\ s.carrying # {}
             /\ s.me \in DeliveryZones
             /\ \/ cur = 0
                \/ /\ curPred.destination.x # s.me.x
                   /\ curPred.destination.y # s.me.y
     THEN {Push(s, Predicate("DELIVER", s.me, NoParcel, Infinity))}
     ELSE {PushIfBetter(s, b) : b \in CoopBestOptions(s, partitioning)}
          \cup {ExploreIfIdle(s, g) : g \in Generators \cup {NoTile}}

\* setInterval(generateOptions, 1000) in cooperative mode.
CoopOptionTimer ==
  /\ engine = "BDI_Agent"
  /\ ~usePddl
  /\ \E out \in GenerateOptionsCoop(State, coop[Self].mapPartitioning) :
       Commit(out)
  /\ UNCHANGED <<config, extVars, loopPc, tourVars, bdi, netVars>>

\* The partitionings that give every generator to one of the teammates.
Partitionings == [RowPPD.generators -> Agents]

\* beliefSet.updateMapPartitioning: the partitioning this agent computed, or
\* the one its teammate sent.
UpdateMapPartitioning(partitioning) ==
  /\ partitioning # coop[Self].mapPartitioning
  /\ coop' = [coop EXCEPT ![Self].mapPartitioning = partitioning]
  /\ UNCHANGED <<config, queueVars, beliefVars, historyVars, tourVars, bdi,
                 netVars, rebalance, storeVars, pathVars, agentVars, mateMe,
                 coopSteps, generated, recomputed>>

NextCoopOptions ==
  \/ LoopTick
  \/ \E i \in 1..MaxIntentions, ok \in BOOLEAN : MoveReturn(i, ok)
  \/ \E i \in 1..MaxIntentions, got \in {{}} \cup {{p} : p \in Parcels} :
       PickupReturn(i, got)
  \/ \E i \in 1..MaxIntentions, nonEmpty \in BOOLEAN, plan \in DeliverPlans :
       DropReturn(i, nonEmpty, plan)
  \/ \E pos \in Tiles : OnYou(pos)
  \/ \E sensed \in Sensings : OnParcelsSensing(sensed)
  \/ CoopOptionTimer
  \/ \E partitioning \in Partitionings : UpdateMapPartitioning(partitioning)

\* ============================================================ specifications
\* The agent with either queue implementation, the teammate abstracted.
Init ==
  /\ \/ engine = "BDI_Agent" /\ usePddl \in BOOLEAN
     \/ engine = "BDI_Engine" /\ usePddl = FALSE
  /\ row = RowPPD
  /\ InitAgent
  /\ InitTour
  /\ InitNet
  /\ InitPartitioning
  /\ InitCoop
  /\ InitStore
  /\ InitPathfinder
  /\ InitNoAgents

Next == NextAgent \/ NextTour

Spec == Init /\ [][Next]_vars

\* The two teammates' handshake, the queues idle.
InitHandshake ==
  /\ engine = "BDI_Agent"
  /\ usePddl = FALSE
  /\ row = RowPPD
  /\ InitAgent
  /\ InitTour
  /\ InitNet
  /\ InitPartitioning
  /\ InitCoop
  /\ InitStore
  /\ InitPathfinder
  /\ InitNoAgents

\* The revision loop of BDI_Agent with the options coming from the timer
\* (config.usePddl off). The timer makes at most MaxPushes pushes.
MaxPushes == 2

LoopOptionTimer == created < MaxPushes /\ OptionTimer

NextLoop ==
  \/ LoopTick
  \/ \E i \in 1..MaxIntentions, ok \in BOOLEAN : MoveReturn(i, ok)
  \/ \E i \in 1..MaxIntentions, got \in {{}} \cup {{p} : p \in Parcels} :
       PickupReturn(i, got)
  \/ \E i \in 1..MaxIntentions, nonEmpty \in BOOLEAN, plan \in DeliverPlans :
       DropReturn(i, nonEmpty, plan)
  \/ \E pos \in Tiles : OnYou(pos)
  \/ \E sensed \in Sensings : OnParcelsSensing(sensed)
  \/ LoopOptionTimer

\* An actuator call of intention i returns.
ActuatorReturns(i) ==
  \/ \E ok \in BOOLEAN : MoveReturn(i, ok)
  \/ \E got \in {{}} \cup {{p} : p \in Parcels} : PickupReturn(i, got)
  \/ \E nonEmpty \in BOOLEAN, plan \in DeliverPlans :
       DropReturn(i, nonEmpty, plan)

\* The setImmediate the loop awaits between two turns fires, and an actuator
\* call that is awaited returns.
LoopFairness ==
  /\ WF_vars(LoopTick)
  /\ WF_vars(\E i \in 1..MaxIntentions : ActuatorReturns(i))

SpecLoop == InitHandshake /\ [][NextLoop]_vars /\ LoopFairness

SpecHandshake == InitHandshake /\ [][NextHandshake]_vars

\* The handshake on a server with a third agent.
SpecOpenHandshake == InitHandshake /\ [][NextOpenHandshake]_vars

\* Agent a takes the message at the head of its inbox.
Deliver(a) ==
  \/ HandleHello(a)
  \/ HandleInit(a)
  \/ HandleAck(a)
  \/ SayResolved(a)
  \/ HandleConfirm(a)

\* Two teammates that both run handleMessage: every ask is answered by the
\* partner's handler.
NextTeam ==
  \/ \E a \in Agents : Discover(a)
  \/ \E a \in Agents : HandleHello(a)
  \/ \E a \in Agents : HandleInit(a)
  \/ \E a \in Agents : HandleAck(a)
  \/ \E a \in Agents : SayResolved(a)
  \/ \E a \in Agents : HandleConfirm(a)

\* Both agents stay connected: the discovery interval of each keeps firing
\* (setInterval, every second) and every message sent is delivered, the event
\* loop of the receiver running its handler.
TeamFairness ==
  \A a \in Agents : WF_vars(Discover(a)) /\ WF_vars(Deliver(a))

SpecTeam == InitHandshake /\ [][NextTeam]_vars /\ TeamFairness

\* The two teammates from the end of the handshake on, the queues idle.
SpecCoop == InitCooperation /\ [][NextCoop]_vars

\* The agent in cooperative mode, the teammate abstracted to the partitionings
\* it can cause.
SpecCoopOptions == InitHandshake /\ [][NextCoopOptions]_vars

\* One call of computeParcelGeneratorPartitioning on every input.
InitCall ==
  /\ engine = "BDI_Agent"
  /\ usePddl = FALSE
  /\ row = RowPPD
  /\ InitAgent
  /\ InitTour
  /\ InitNet
  /\ InitCoop
  /\ InitStore
  /\ InitPathfinder
  /\ InitNoAgents
  /\ InitRebalance

NextPartitioning == Rebalance

SpecPartitioning == InitCall /\ [][NextPartitioning]_vars

\* The belief set's parcel store under sensing events and reads, for every
\* decay interval of the game configuration.
InitBelief ==
  /\ engine = "BDI_Agent"
  /\ usePddl = FALSE
  /\ row = RowPPD
  /\ InitAgent
  /\ InitTour
  /\ InitNet
  /\ InitCoop
  /\ InitPartitioning
  /\ InitDecay
  /\ InitPathfinder
  /\ InitNoAgents

SpecStore == InitBelief /\ [][NextStore]_vars

\* One call of findPath on every query, and the replay of the path it returns.
InitFindPath ==
  /\ engine = "BDI_Agent"
  /\ usePddl = FALSE
  /\ row = RowPPD
  /\ InitAgent
  /\ InitTour
  /\ InitNet
  /\ InitCoop
  /\ InitPartitioning
  /\ InitStore
  /\ InitQuery
  /\ InitNoAgents

SpecPathfinder == InitFindPath /\ [][NextPathfinder]_vars

\* The belief set's other agents under sensing events.
InitOccupancy ==
  /\ engine = "BDI_Agent"
  /\ usePddl = FALSE
  /\ row = RowPPD
  /\ InitAgent
  /\ InitTour
  /\ InitNet
  /\ InitCoop
  /\ InitPartitioning
  /\ InitStore
  /\ InitPathfinder
  /\ InitAgents

SpecOccupancy == InitOccupancy /\ [][NextAgents]_vars

\* The agent alone on the S . P . D row, a parcel on the generator.
InitRow ==
  /\ engine = "BDI_Agent"
  /\ usePddl \in BOOLEAN
  /\ row = RowSPD
  /\ InitAgent
  /\ InitTour
  /\ InitNet
  /\ InitPartitioning
  /\ InitCoop
  /\ InitStore
  /\ InitPathfinder
  /\ InitNoAgents

SpecRow == InitRow /\ [][NextRow]_vars

\* =================================================================== claims
Ids == 1..MaxIntentions

\* Intentions whose achieve() was started by the revision loop and has not
\* settled: it is suspended on an actuator call or a message send.
Executing == {i \in Ids : intentions[i].pc \in InFlight}

\* Tour-variant intentions with executing = true.
TourExecuting == {i \in Ids : tourIntentions[i].executing}

\* C1: in every reachable state at most one intention is being executed: the
\* revision loop has at most one top-level achieve() in progress, and in the
\* tour variant at most one Intention has executing = true.
C1_AtMostOneExecuting ==
  /\ Cardinality(Executing) <= 1
  /\ Cardinality(TourExecuting) <= 1

\* An intention is in flight, has been stopped by a push, and its successor
\* waits behind it in the queue.
C1_Witness ==
  /\ engine = "BDI_Agent"
  /\ Len(intentionQueue) >= 2
  /\ \E i \in Executing : i = intentionQueue[1] /\ intentions[i].stopped

\* A step in which push() created an intention.
Pushed == created' = created + 1

\* C2: a push of a non-duplicate predicate appends the new intention at the
\* tail of the queue and sets stopped on the intention that was last before
\* it; and achieve() is only ever started on an intention once every
\* intention queued ahead of it has been popped.
C2_PushAppendsAndStopsLast ==
  [][/\ Pushed =>
          LET q == intentionQueue'
              n == Len(q)
          IN /\ n >= 1
             /\ q[n] = created'
             /\ ~intentions'[q[n]].stopped
             /\ intentions'[q[n]].pc = "new"
             /\ n >= 2 => intentions'[q[n - 1]].stopped
     /\ \A k \in 1..Len(intentionQueue) :
          LET i == intentionQueue[k]
          IN (intentions[i].pc = "new" /\ intentions'[i].pc \in InFlight)
               => \A j \in 1..(k - 1) :
                    intentionQueue[j] \notin Range(intentionQueue')]_vars

\* A push has appended behind an intention that is in flight: the earlier one
\* is stopped, the new one has not started.
C2_Witness ==
  /\ Len(intentionQueue) >= 2
  /\ LET n == Len(intentionQueue)
     IN /\ intentions[intentionQueue[n - 1]].stopped
        /\ intentions[intentionQueue[n - 1]].pc \in InFlight
        /\ ~intentions[intentionQueue[n]].stopped
        /\ intentions[intentionQueue[n]].pc = "new"

\* C3: push(p) is a no-op when the queue already holds an intention whose
\* predicate equals p in every field but utility, whatever its position: a
\* push never appends an intention behind a queued one with an equal predicate.
C3_DuplicateAnywhereIsNoOp ==
  [][Pushed =>
       \A k \in 1..(Len(intentionQueue') - 1) :
         ~SamePredicate(intentions'[intentionQueue'[k]].predicate,
                        intentions'[created'].predicate)]_vars

\* C4: when the best-option push of the option generator (a predicate with an
\* evaluated utility) stops a queued intention, the pushed utility is
\* strictly greater than the utility of the intention it stops.
C4_PreemptionIsStrictlyBetter ==
  [][(/\ Pushed
      /\ Len(intentionQueue') >= 2
      /\ intentions'[created'].predicate.utility \in 1..MaxUtility)
       => LET q == intentionQueue'
          IN intentions'[q[Len(q) - 1]].predicate.utility
               < intentions'[created'].predicate.utility]_vars

\* C5: once Intention.stop() has returned, the intention, its current plan,
\* the plan's sub-intention and the sub-intention's plan are all stopped.
C5_StopReachesSubIntentions ==
  \A i \in Ids :
    intentions[i].stopped =>
      /\ intentions[i].hasPlan => intentions[i].planStopped
      /\ intentions[i].hasSub => intentions[i].subStopped
      /\ intentions[i].hasSubPlan => intentions[i].subPlanStopped

\* A running Pickup or Deliver intention (plan, GoTo sub-intention, GoToPlan)
\* has been stopped.
C5_Witness ==
  \E i \in Ids :
    /\ intentions[i].pc \in InFlight
    /\ intentions[i].stopped
    /\ intentions[i].hasPlan /\ intentions[i].hasSub /\ intentions[i].hasSubPlan

\* C6: achieve() of an intention on which stop() was called before it settled
\* never resolves successfully.
C6_StoppedNeverResolves == settled.outcome = "resolved" => ~settled.stopped

\* C7: a plan whose stopped flag is set starts no further actuator call or
\* message send.
C7_NoCallAfterStop == \A i \in Ids : ~intentions[i].callAfterStop

\* The head of the queue is a Deliver with an empty inventory, or a Pickup of
\* a parcel believed carried.
HeadIsInvalid ==
  /\ Len(intentionQueue) > 0
  /\ LET predicate == intentions[intentionQueue[1]].predicate
     IN \/ predicate.type = "DELIVER" /\ carrying = {}
        \/ /\ predicate.type = "PICKUP"
           /\ predicate.parcel_id \in Parcels
           /\ parcels[predicate.parcel_id] = "carried"

\* C8: a loop tick that finds such a head removes it from the queue without
\* starting achieve() on it.
C8_InvalidHeadDropped ==
  [][(LoopTick /\ HeadIsInvalid)
       => /\ intentionQueue[1] \notin Range(intentionQueue')
          /\ ~intentions'[intentionQueue[1]].started
          /\ intentions'[intentionQueue[1]].pc \notin InFlight]_vars

\* The loop is about to tick on an invalid head that has not been started.
C8_Witness ==
  /\ engine = "BDI_Agent"
  /\ loopPc = "ready"
  /\ HeadIsInvalid
  /\ ~intentions[intentionQueue[1]].started

\* C9: every transition of the queue from non-empty to empty invokes the
\* registered queue-empty callback (registered when config.usePddl).
C9_CallbackOnEveryDrain == (usePddl /\ drained) => callbackInvoked

\* C10: once both teammates have handshakeComplete they hold the same
\* sessionId, each has the other as teammateId, and only the lower id has
\* initiatedHandshake.
C10_HandshakeAgreement ==
  (bdi[Self].handshakeComplete /\ bdi[Mate].handshakeComplete)
    => /\ bdi[Self].sessionId = bdi[Mate].sessionId
       /\ bdi[Self].teammateId = Mate
       /\ bdi[Mate].teammateId = Self
       /\ bdi[Self].initiatedHandshake
       /\ ~bdi[Mate].initiatedHandshake

\* The reply at the head of a's inbox is not the acknowledgement of its ask.
BadReplyAtHead(a) ==
  LET reply == Head(inbox[a])
  IN \/ reply.type # "HANDSHAKE_ACK"
     \/ reply.teamKey # TeamKey
     \/ reply.echoNonce # reply.nonce

\* C11: when the reply to HandshakeInit is not a HandshakeAck, carries another
\* team key or another nonce, or the ask fails, the initiator sends no
\* HandshakeConfirm (nothing at all) and its handshake state is unchanged.
C11_BadReplyChangesNothing ==
  [][\A a \in Agents :
       (HandleAck(a) /\ BadReplyAtHead(a))
         => /\ bdi' = bdi
            /\ inbox' = [inbox EXCEPT ![a] = Tail(@)]]_vars

\* A handshake was started, its ask returned a bad reply, and nothing is left
\* of it.
C11_Witness ==
  /\ nextUuid = 3
  /\ hellos[Mate] = 1
  /\ inbox = [a \in Agents |-> <<>>]
  /\ bdi = [a \in Agents |-> NoHandshake]

\* Number of generators the finished computation gives to agent a.
Held(a) ==
  Cardinality({k \in DOMAIN rebalance.partitioning :
                 rebalance.partitioning[k] = a})

AllReachable ==
  \A a \in Agents : \A i \in 1..Len(rebalance.generators) :
    rebalance.dist[a][rebalance.generators[i]] # PosInfinity

\* C15: when every generator is reachable from both agents, the returned
\* partition gives each agent exactly its capacity: floor(|G|/2) generators,
\* plus one for the first agent (self) when |G| is odd.
C15_BalancedWhenReachable ==
  (rebalance.done /\ AllReachable)
    => LET n == Len(rebalance.generators)
       IN /\ Held(Self) = (n \div 2) + (n % 2)
          /\ Held(Mate) = n \div 2

\* Three generators, all of them closer to self: the computation has moved one
\* to the teammate.
C15_Witness ==
  /\ rebalance.done
  /\ Len(rebalance.generators) = 3
  /\ \A i \in 1..3 : rebalance.dist[Self][i] = 0 /\ rebalance.dist[Mate][i] = 1
  /\ Held(Mate) = 1

\* C16: the capacity-rebalancing loop terminates on every input, unreachable
\* generators included: it never starts more passes than there are generators,
\* plus the pass that finds the loads balanced.
C16_RebalancingTerminates ==
  rebalance.passes <= Len(rebalance.generators) + 1

\* The loop has ended after giving an agent a generator it cannot reach.
C16_Witness ==
  /\ rebalance.done
  /\ \E k \in DOMAIN rebalance.partitioning :
       rebalance.dist[rebalance.partitioning[k]][k] = PosInfinity

\* The message at the head of a's inbox is session-scoped and of another
\* session than a's current one (0 before a's handshake has completed).
StaleAtHead(a) ==
  /\ inbox[a] # <<>>
  /\ Head(inbox[a]).type \in CoopTypes
  /\ Head(inbox[a]).sessionId # bdi[a].sessionId

\* C12: a ParcelsSensed, AgentsSensed, MyInfo or MapPartitioning message whose
\* sessionId differs from the receiver's current sessionId leaves the
\* receiver's BeliefSet unchanged and triggers no option generation.
C12_StaleMessageDiscarded ==
  [][\A a \in Agents :
       (HandleCoop(a) /\ StaleAtHead(a))
         => /\ coop' = coop
            /\ me' = me /\ mateMe' = mateMe
            /\ generated' = NoAgent]_vars

\* The teammate, still on the session of the first handshake, has sent its
\* sensed parcels and the receiver has handled the message without taking
\* them over.
C12_Witness ==
  /\ coopSteps = 1
  /\ bdi[Self].sessionId # bdi[Mate].sessionId
  /\ bdi[Mate].handshakeComplete
  /\ coop[Mate].parcels = Parcels
  /\ inbox[Self] = <<>>
  /\ coop[Self].parcels = {}

\* MapPartitioning messages of agent a that its teammate has yet to handle.
PartitioningsFrom(a) ==
  Cardinality({i \in 1..Len(inbox[Other(a)]) :
                 /\ inbox[Other(a)][i].type = "MAP_PARTITIONING"
                 /\ inbox[Other(a)][i].from = a})

\* C13: an agent whose initiatedHandshake is not true sends no
\* MapPartitioning message and never stores a partitioning it computed; its
\* partitioning changes only when it handles a MapPartitioning message of its
\* current session, to the partitioning of that message.
C13_OnlyInitiatorPartitions ==
  [][\A a \in Agents :
       ~bdi[a].initiatedHandshake
         => /\ PartitioningsFrom(a)' <= PartitioningsFrom(a)
            /\ recomputed' # a
            /\ coop'[a].mapPartitioning # coop[a].mapPartitioning
                 => /\ inbox[a] # <<>>
                    /\ Head(inbox[a]).type = "MAP_PARTITIONING"
                    /\ Head(inbox[a]).sessionId = bdi[a].sessionId
                    /\ inbox'[a] = Tail(inbox[a])
                    /\ coop'[a].mapPartitioning =
                         Deserialize(Head(inbox[a]).content.partitioning)]_vars

\* The agent that did not initiate holds a partitioning it has received.
C13_Witness ==
  /\ ~bdi[Mate].initiatedHandshake
  /\ bdi[Mate].handshakeComplete
  /\ coop[Mate].mapPartitioning # EmptyPartitioning
  /\ coop[Mate].mapPartitioning = coop[Self].mapPartitioning

\* C14: every partitioning stored after a recomputation has exactly the
\* parcel-generator tiles as keys and maps each to self or to the teammate.
C14_RecomputedCoversGenerators ==
  recomputed # NoAgent
    => \A g \in Generators :
         coop[recomputed].mapPartitioning[g] \in {recomputed, Other(recomputed)}

\* C17: every parcel returned by getParcels() or getParcel(id) has a reward
\* greater than 0.
C17_ReturnedRewardPositive == \A p \in returned : Greater(p.reward, 0)


\* A step that is a call of getParcels() or getParcel(id): the steps that
\* take no time and leave no sensed list behind.
Read == now' = now /\ ~lastData'.called

\* The stored parcel id is outdated and, at time t, its lastSeenReward decay
\* intervals have passed since it was last seen; the interval is a finite
\* one.
Due(id, t) ==
  /\ parcelStore[id].outdated
  /\ decadingInterval # Infinite
  /\ t >= parcelStore[id].lastSeenTimestamp
            + parcelStore[id].lastSeenReward
                * parseTimeInterval(decadingInterval)

\* C18: a read made at or after lastSeenTimestamp + r * I of an outdated
\* parcel with lastSeenReward r, for a decay interval of I milliseconds, does
\* not return the parcel and leaves neither the parcel in the belief set nor
\* its coordinates in activeParcelPositions; a read never brings a parcel or
\* a position back.
C18_EvictedWhenDue ==
  [][Read =>
       /\ \A id \in DOMAIN parcelStore :
            Due(id, now) =>
              /\ id \notin DOMAIN parcelStore'
              /\ \A p \in returned' : p.id # id
              /\ PosKey(parcelStore[id]) \notin activeParcelPositions'
       /\ DOMAIN parcelStore' \subseteq DOMAIN parcelStore
       /\ activeParcelPositions' \subseteq activeParcelPositions]_vars

\* A read with the interval "1s" has just evicted p1, whose coordinates are
\* no longer active.
C18_Witness ==
  /\ decadingInterval = OneSecond
  /\ "p1" \in evicted
  /\ "p1" \notin DOMAIN parcelStore
  /\ activeParcelPositions = {}
  /\ now >= 2500

\* The stored parcels a call of updateFromParcels(parcelsData) finds absent
\* from its list.
Absent(parcelsData) == DOMAIN parcelStore \ DOMAIN parcelsData

\* A step that is a call of updateFromParcels: the steps that take no time
\* and leave their list behind.
Update == now' = now /\ lastData'.called

\* C19: updateFromParcels(list) removes every previously known parcel absent
\* from list on whose tile some parcel of list is reported, already marked
\* outdated or not, and keeps every other absent one as outdated with the
\* lastSeenReward it had (its reward, when it was not outdated yet).
C19_AbsentTreatedAlike ==
  [][Update =>
       \A id \in Absent(lastData'.data) :
         IF \E seen \in DOMAIN lastData'.data :
              PosKey(lastData'.data[seen]) = PosKey(parcelStore[id])
         THEN id \notin DOMAIN parcelStore'
         ELSE /\ id \in DOMAIN parcelStore'
              /\ parcelStore'[id].outdated
              /\ parcelStore'[id].lastSeenReward
                   = IF parcelStore[id].outdated
                     THEN parcelStore[id].lastSeenReward
                     ELSE parcelStore[id].reward]_vars

\* What of the stored parcels two belief sets are compared on.
Contents(ps) ==
  [id \in DOMAIN ps |->
     [reward |-> ps[id].reward, outdated |-> ps[id].outdated,
      lastSeenReward |-> ps[id].lastSeenReward]]

\* C20: a call of updateFromParcels(s) that follows a call of
\* updateFromParcels(s) with the same list, whatever time passed in between,
\* leaves the parcel ids, their rewards, outdated flags and lastSeenReward
\* values, and activeParcelPositions as the first call left them.
C20_UpdateTwiceIsNoOp ==
  [][(Update /\ lastData'.repeated) =>
       /\ Contents(parcelStore') = Contents(parcelStore)
       /\ activeParcelPositions' = activeParcelPositions]_vars

\* The list [p2] has just been given a second time, half a second or more
\* after the start, to a belief set that holds p1 as outdated.
C20_Witness ==
  /\ lastData.repeated
  /\ DOMAIN lastData.data = {"p2"}
  /\ DOMAIN parcelStore = StoreIds
  /\ parcelStore["p1"].outdated
  /\ parcelStore["p2"].lastSeenTimestamp > parcelStore["p1"].lastSeenTimestamp

\* The predicates held by the queued intentions and by their sub-intentions.
HeldPredicates ==
  {intentions[intentionQueue[k]].predicate : k \in 1..Len(intentionQueue)}
    \cup {SubPredicate(intentions[intentionQueue[k]]) :
            k \in {j \in 1..Len(intentionQueue) :
                     intentions[intentionQueue[j]].hasSub}}

\* C23: every Pickup predicate held by a queued intention or a sub-intention
\* has a parcel_id, and every Deliver, Exploration or GoTo predicate has none.
C23_ParcelIdOnlyOnPickup ==
  \A predicate \in HeldPredicates :
    /\ predicate.type = "PICKUP" => predicate.parcel_id # NoParcel
    /\ predicate.type \in {"DELIVER", "EXPLORATION", "GO_TO"}
         => predicate.parcel_id = NoParcel

\* The agent carries a parcel and stands on a delivery tile that differs from
\* the current intention's destination in x or in y, or there is no current
\* intention.
DeliverHere ==
  /\ carrying # {}
  /\ me \in DeliveryZones
  /\ \/ intentionQueue = <<>>
     \/ intentions[Head(intentionQueue)].predicate.destination.x # me.x
     \/ intentions[Head(intentionQueue)].predicate.destination.y # me.y

C30_OnlyLastNotStopped ==
  \A k \in 1..Len(intentionQueue) :
    k < Len(intentionQueue) => intentions[intentionQueue[k]].stopped

\* Three intentions are queued, the head suspended on an actuator call; the
\* first two are stopped and the last one is not.
C30_Witness ==
  /\ Len(intentionQueue) = 3
  /\ intentions[intentionQueue[1]].pc \in InFlight
  /\ intentions[intentionQueue[1]].stopped
  /\ intentions[intentionQueue[2]].stopped
  /\ ~intentions[intentionQueue[3]].stopped

\* C25: after actuator.pickup of PickUpPlan returned a non-empty list, every
\* parcel id of the list is in the carried inventory.
C25_PickedParcelsCarried ==
  answered.call = "pickup" => answered.got \subseteq carrying

\* C26: after actuator.drop of DeliverPlan returned a non-empty list the
\* carried inventory is empty, and after it returned an empty list the
\* inventory is the one the call found.
C26_DropClearsInventory ==
  answered.call = "drop" =>
    carrying = IF answered.ok THEN {} ELSE answered.carried

\* C21: every parcel of the belief set whose carriedBy is the agent's own id
\* is in the carried inventory.
C21_OwnParcelsInInventory ==
  \A p \in Parcels : parcels[p] = "mine" => p \in carrying

\* A sensor callback of the driver runs.
SensorEvent ==
  \/ \E pos \in Tiles : OnYou(pos)
  \/ \E sensed \in Sensings : OnParcelsSensing(sensed)
  \/ OnAgentsSensing

\* C28: a sensor event that arrives while an actuator call of the running
\* plan is in flight modifies neither the belief set nor the intention queue.
C28_SensorsWaitForActuator ==
  [][(SensorEvent /\ \E i \in 1..MaxIntentions : intentions[i].pc \in InFlight)
       => UNCHANGED <<me, parcels, carrying, intentionQueue>>]_vars

\* The move of intention i returns a failure in this step.
MoveFails(i) ==
  /\ intentions[i].pc = "move"
  /\ intentions'[i] # intentions[i]
  /\ answered'.call = "move"
  /\ ~answered'.ok

\* C29: when actuator.move reports a failure, the intention issues no further
\* move and no pickup or drop, its achieve() rejects, and the loop pops it
\* from the queue and is ready for the next one.
C29_FailedMoveFailsIntention ==
  [][\A i \in 1..MaxIntentions :
       MoveFails(i) =>
         /\ intentions'[i].pc \notin InFlight
         /\ settled'.outcome \in {"failed", "stopped"}
         /\ \A k \in 1..Len(intentionQueue') : intentionQueue'[k] # i
         /\ loopPc' = "ready"]_vars

\* A move has just failed with another intention queued behind: the failed
\* intention is gone and the loop is ready for the next one.
C29_Witness ==
  /\ answered.call = "move"
  /\ ~answered.ok
  /\ settled.outcome = "failed"
  /\ loopPc = "ready"
  /\ Len(intentionQueue) > 0
  /\ \A i \in 1..MaxIntentions : intentions[i].pc \notin InFlight

\* The tile the replay stands on is inside the grid, not NonWalkable and not
\* in the occupancy set of the query.
OnFreeTile ==
  /\ Walkable(getNode(query.grid, position.x, position.y))
  /\ position \notin query.occupied

\* C22: replaying the moves of a path findPath returned visits only tiles in
\* the grid that are neither NonWalkable nor occupied at the time of the
\* query, ends on the goal, and the path's cost is the number of its moves.
C22_ReplayReachesGoalOverFreeTiles ==
  (found.called /\ found.path # NullPath) =>
    /\ OnFreeTile
    /\ replayed = Len(found.path.moves) => position = query.goal
    /\ found.path.cost = Len(found.path.moves)

\* The same without the occupancy set: what the pathfinder does guarantee.
ReplayReachesGoalOverWalkableTiles ==
  (found.called /\ found.path # NullPath) =>
    /\ Walkable(getNode(query.grid, position.x, position.y))
    /\ replayed = Len(found.path.moves) => position = query.goal
    /\ found.path.cost = Len(found.path.moves)

\* The calls of the run on the S . P . D row.
ExpectedCalls == <<"right", "right", "pickup", "right", "right", "drop">>

\* C27: on the row S . P . D with one parcel on the generator and no other
\* agent, whatever the order of option-generation ticks and sensor updates,
\* the actuator calls are right, right, pickup, right, right, drop and nothing
\* else, and the inventory is empty once the drop has returned.
C27_RowRunIsExact ==
  row = RowSPD =>
    /\ Len(calls) <= Len(ExpectedCalls)
    /\ calls = SubSeq(ExpectedCalls, 1, Len(calls))
    /\ calls = ExpectedCalls => carrying = {}

\* C39: with PARCEL_DECADING_INTERVAL = "infinite" a read leaves every
\* outdated parcel in the belief set, its reward the one it was last seen with,
\* however long ago that was.
C39_InfiniteNeverDecays ==
  [][(Read /\ decadingInterval = Infinite) =>
       \A id \in DOMAIN parcelStore :
         parcelStore[id].outdated =>
           /\ id \in DOMAIN parcelStore'
           /\ parcelStore'[id].reward = parcelStore[id].lastSeenReward]_vars

\* C37: after every updateFromParcels and every read, activeParcelPositions
\* holds exactly the tiles of the stored parcels that are not carried and have
\* a positive reward, also when parcels share a tile.
C37_ActivePositionsExact ==
  activeParcelPositions = ActivePositions(parcelStore)

\* C38: right after updateFromAgents(list), occupiedPositions holds the
\* rounded tile of every agent of the list other than the agent itself, in
\* whatever order the list names them and wherever they were known before.
C38_SensedAgentsOccupy ==
  lastAgents.called =>
    \A k \in 1..Len(lastAgents.data) :
      lastAgents.data[k].id # Self =>
        RoundedKey(lastAgents.data[k]) \in DOMAIN occupiedPositions

\* C36: every generator of the partitioning under computation is assigned to
\* an agent with a path of finite cost to it, after the Voronoi phase and
\* after every reassignment of the rebalancing.
C36_AssignedAgentReaches ==
  \A k \in DOMAIN rebalance.partitioning :
    rebalance.dist[rebalance.partitioning[k]][k] # PosInfinity

\* C32: the handshake state of an agent changes on a HandshakeConfirm only
\* when the sender took an acknowledgement from this agent: the confirm of an
\* agent that never took part in an exchange leaves bdi unchanged.
C32_ConfirmOnlyFromAcknowledged ==
  [][\A a \in Agents :
       (HandleConfirm(a) /\ Head(inbox[a]).from = Stranger)
         => bdi' = bdi]_vars

\* The messages of box whose type is in types.
OfTypes(box, types) == {k \in 1..Len(box) : box[k].type \in types}

\* The exchanges agent a started that have neither completed nor failed: the
\* init is on its way, or the reply to its ask is, or the say of the confirm
\* has not returned.
Exchanges(a) ==
  Cardinality(OfTypes(inbox[Other(a)], {"HANDSHAKE_INIT"}))
    + Cardinality(OfTypes(inbox[a], AskReplies \cup {"SAY_DONE"}))

\* C33: the lower-id agent has at most one handshake in flight, however many
\* Hello messages arrive before the exchange completes or fails.
C33_OneHandshakeInFlight == Exchanges(Self) <= 1

BothComplete == \A a \in Agents : bdi[a].handshakeComplete

\* C34: two connected teammates whose messages are all delivered both reach
\* handshakeComplete and keep it, and an agent with handshakeComplete shouts
\* no further Hello.
C34_HandshakeCompletes ==
  /\ <>[]BothComplete
  /\ [][\A a \in Agents :
          bdi[a].handshakeComplete => hellos'[a] = hellos[a]]_vars

\* Both completed after one Hello of the higher id, the lower id never
\* having shouted: its interval finds the handshake complete.
C34_Witness ==
  /\ BothComplete
  /\ hellos[Mate] = 1
  /\ hellos[Self] = 0
  /\ inbox = [a \in Agents |-> <<>>]

\* C35: in cooperative mode every Pickup predicate the option generator
\* pushes, the immediate pickup of the parcel under the agent included, is for
\* a parcel on a tile the current partitioning assigns to this agent.
C35_PickupOnlyInOwnArea ==
  [][\A i \in 1..MaxIntentions :
       (/\ created < i
        /\ i <= created'
        /\ intentions'[i].predicate.type = "PICKUP")
         => AssignedAgent(coop[Self].mapPartitioning,
                          TileOf(intentions'[i].predicate.parcel_id)) = Self]_vars

\* Intention i is executing and was replaced in the queue by an improved one.
ReplacedWhileExecuting(i) ==
  /\ tourIntentions[i].executing
  /\ executor.currentlyExecuting = i
  /\ i \notin Range(tourQueue)

\* C40: when the execution of a tour intention that pushIntention replaced
\* unwinds, the intentions in the queue that are valid and were not executed
\* yet, the improved one among them, stay in the queue.
C40_ReplacementSurvivesUnwinding ==
  [][\A i, j \in 1..MaxIntentions :
       (/\ ReplacedWhileExecuting(i)
        /\ executor' = Idle
        /\ j \in Range(tourQueue)
        /\ tourIntentions[j].pc = "new"
        /\ IsIntentionValid(tourIntentions[j]))
         => j \in Range(tourQueue')]_vars

\* C31: with every actuator call returning, every intention pushed onto the
\* queue of BDI_Agent eventually leaves it and the loop does not halt on a
\* failed intention: once the last of the MaxPushes pushes is made, the
\* queue becomes empty with the loop ready for its next turn, for good.
C31_EveryIntentionLeaves ==
  <>[](intentionQueue = <<>> /\ loopPc = "ready")

\* An intention failed on a pickup or a drop path, it was the last of the
\* queue, and the loop is ready again.
C31_Witness ==
  /\ settled.outcome = "failed"
  /\ loopPc = "ready"
  /\ intentionQueue = <<>>
  /\ created = MaxPushes

====
